---- MODULE Spec2Model ----
(***************************************************************************)
(* State-machine model of the sisu reading application: the Reader page    *)
(* (src/src/pages/Reader.jsx, second component of the file, lines 89-341), *)
(* the IndexedDB wrapper (src/src/lib/db.js), the ingestion / deletion    *)
(* paths of the Library page (src/src/pages/Library.jsx), the paginated    *)
(* PDF viewer (src/src/components/UnifiedBookReader.jsx) and the metadata  *)
(* string functions (src/src/lib/meta-utils.js).                           *)
(*                                                                         *)
(* Scheduling.  The program is single threaded.  Every db.js function      *)
(* awaits the shared connection and then places one IndexedDB request;     *)
(* requests of one connection are executed, and their promises resolved,   *)
(* in the order they were placed.  The model keeps the placed requests in  *)
(* the FIFO queue dbq; a Done action executes the head request and runs     *)
(* the code that awaited it, which may place further requests at the tail. *)
(*                                                                         *)
(* React.  setBook(x) makes x the component's book state; the ref bookRef  *)
(* is copied from the state by a passive effect that runs after the next   *)
(* commit (Reader.jsx 121-123), a separate step SyncRef of the model.      *)
(* A state update of an unmounted component is dropped.                    *)
(*                                                                         *)
(* Time.  One Tick is TickMs milliseconds.  A commit and its effects take  *)
(* less than one Tick; a timer that is due fires before time advances.     *)
(***************************************************************************)
EXTENDS Integers, Sequences, FiniteSets, TLC

----------------------------------------------------------------------------
(* Bounds of the model *)

\* Reader component instances (mounts of /read/:id) in one run.
MaxInst == 2
\* Progress events delivered to the controller in one run.
MaxEvents == 2
\* Library operations (ingestions and deletions) started in one run.
MaxLibOps == 2
\* Length of one Tick in milliseconds.
TickMs == 200

(* Program constants *)

\* setTimeout(..., 2000) in scheduleSave
SaveDelayMs == 2000
\* const CACHE_SIZE_LIMIT = 3
CACHE_SIZE_LIMIT == 3
\* progress >= 95 marks a book finished
FinishPercent == 95

TimerTicks == SaveDelayMs \div TickMs

----------------------------------------------------------------------------
(* Data *)

\* Book ids: the SHA-256 of the file bytes (book-utils.js generateFileHash).
Books == {"e1", "p1", "t1"}

\* The key space of the books store: the books above, and the 200-page
\* fixed-layout document p2, which is in the library only in the states of
\* InitResume.
Ids == Books \cup {"p2"}

\* detectFormat: the format recorded for each file at ingestion.
FileFormat(id) ==
    CASE id = "e1" -> "epub"
      [] id = "p1" -> "pdf"
      [] id = "p2" -> "pdf"
      [] OTHER     -> "txt"

\* numPages of the document react-pdf loads from the file (0: no pages
\* are counted for the other formats).
PageCount(id) ==
    CASE id = "p1" -> 100
      [] id = "p2" -> 200
      [] OTHER     -> 0

\* readFile: the title guessed at ingestion.  The file of p1 is named
\* ".pdf" and has no info.Title, so its guessed title is the empty string.
FileTitle(id) ==
    CASE id = "e1" -> "Dune"
      [] id = "p1" -> ""
      [] id = "p2" -> "Manual"
      [] OTHER     -> "Notes"

\* readFile: the placeholder title derived from the file name (the files
\* are book.epub, .pdf and Notes.txt); the title of e1 comes from its
\* metadata.
FilenameTitle(id) ==
    CASE id = "e1" -> "book"
      [] id = "p1" -> ""
      [] id = "p2" -> "Manual"
      [] OTHER     -> "Notes"

\* Percent values a reader reports (position tokens are identified with
\* the percent they stand for: the page of 100, the location of 100).
Percents == {50, 94, 96, 97, 98}

\* Metadata a rendering engine may report: onMetaExtracted is only called
\* when title or author is non-empty.
Metas == { [title |-> "Meta", author |-> "Jane"],
           [title |-> "Meta", author |-> ""],
           [title |-> "",     author |-> "Jane"] }

\* null / undefined Book
Null == [id |-> "none", format |-> "none", status |-> "none", progress |-> 0,
         pos |-> 0, title |-> "", author |-> "", addedAt |-> 0]

\* processFiles: the Book built from readFile's result.  addedAt is the
\* Date.now() of readFile: the initial books were read at instant 0, the
\* file of the n-th ingestion of a run at instant n.
NewBook(id, at) ==
    [id |-> id, format |-> FileFormat(id), status |-> "want-to-read",
     progress |-> 0, pos |-> IF FileFormat(id) = "pdf" THEN 1 ELSE 0,
     title |-> FileTitle(id), author |-> "Unknown Author", addedAt |-> at]

\* db.getAll('books') returns the records in key order.
BookOrder == <<"e1", "p1", "t1">>

\* The Library page with the books state `list` (ids, in display order).
LoadedLibrary(n, list) == [alive |-> TRUE, inst |-> n, loading |-> FALSE, list |-> list]

\* getReadingGoal: defaultGoal (dates are day numbers, 0 is the empty string)
DefaultGoal ==
    [currentStreak |-> 0, longestStreak |-> 0, lastReadDate |-> 0,
     totalBooksCompleted |-> 0, totalMinutesRead |-> 0]

\* A Reader component instance before its first render.
FreshReader(id) ==
    [alive |-> TRUE, id |-> id, book |-> Null, bookRef |-> Null,
     loading |-> TRUE, fileData |-> "null",
     savePending |-> FALSE, timerArmed |-> FALSE, timerLeft |-> 0,
     meta |-> "idle", numPages |-> 0, currentPage |-> 0, buffer |-> 0]

\* An instance number that was never mounted.
NoReader ==
    [alive |-> FALSE, id |-> "none", book |-> Null, bookRef |-> Null,
     loading |-> TRUE, fileData |-> "null",
     savePending |-> FALSE, timerArmed |-> FALSE, timerLeft |-> 0,
     meta |-> "idle", numPages |-> 0, currentPage |-> 0, buffer |-> 0]

Insts == 1..MaxInst

\* The order of the automatic status transitions.
StatusRank(s) ==
    CASE s = "want-to-read" -> 0
      [] s = "reading"      -> 1
      [] s = "finished"     -> 2
      [] OTHER              -> 0 - 1

\* The IEEE values Infinity and NaN: Infinity is above every percent.
Infinity == 2 ^ 30
NaN == 0 - Infinity

\* Math.round(n / d * 100) for n >= 0 and d >= 0: n / 0 is Infinity, 0 / 0
\* is NaN, and Math.round returns both unchanged.
RoundPercent(n, d) ==
    IF d = 0 THEN (IF n = 0 THEN NaN ELSE Infinity)
    ELSE (200 * n + d) \div (2 * d)

Range(s) == { s[k] : k \in 1..Len(s) }

----------------------------------------------------------------------------
(* State *)

VARIABLES
    books,        \* object store 'books': id -> Book, Null when absent
    files,        \* object store 'files': the ids that have a File record
    goal,         \* object store 'settings', key 'reading-goal' (DefaultGoal
                  \* stands for the absent record, which reads as the default)
    fileCache,    \* Reader.jsx fileCache: the keys of the Map in insertion order
    dbq,          \* IndexedDB requests placed and not yet executed
    rd,           \* the Reader component instances, by mount number
    cur,          \* the mounted Reader instance, 0 on any other page
    ninst,        \* Reader instances mounted so far
    nev,          \* progress events delivered so far
    nlib,         \* library operations started so far
    lib,          \* the Library page: its instance and its books state
    now,          \* the clock: hours since the epoch (UTC)
    completions,  \* per book id: how often the completion branch has run
    scen,         \* observer of the 96, 97, 94, 98 scenario (see ScenStep)
    obs,          \* observer of the debounced save (see ObsEvent)
    reads,        \* observer of updateReadingStats (see ObsStats)
    text,         \* the metadata string being cleaned: its value and the
                  \* value before the last call
    heap,         \* the ArrayBuffer objects (numbered in the order of their
                  \* creation): the values of the fileCache Map, the buffers
                  \* handed to viewers, the detached buffers
    epub,         \* useEpubReader: the effect's book and rendition, the
                  \* hook's progress state, the keydown listeners on document
    scroll        \* usePdfReader in 'scrolled' mode: the scroll position and
                  \* the visiblePages state

vars == <<books, files, goal, fileCache, dbq, rd, cur, ninst, nev, nlib, lib,
          now, completions, scen, obs, reads, text, heap, epub, scroll>>

storeVars == <<books, files, goal>>
ghostVars == <<completions, scen, obs, reads>>
viewVars == <<epub, scroll>>

----------------------------------------------------------------------------
(* IndexedDB requests *)

Req(op, id, inst, book, g, src, stale) ==
    [op |-> op, id |-> id, inst |-> inst, book |-> book, goal |-> g,
     src |-> src, stale |-> stale, buf |-> 0]

\* The id of the book the mounted Reader shows, "none" on any other page.
OpenId == IF cur = 0 THEN "none" ELSE rd[cur].id

\* loadBook up to its first await: getBook alone when the file is cached,
\* Promise.all([getBook, getBookFile]) otherwise.
\* buf: cachedFile, the value fileCache.get(id) returned.
LoadReq(i, id, cached) ==
    [Req("load", id, i, Null, DefaultGoal, IF cached THEN "fast" ELSE "slow", "no")
        EXCEPT !.buf = IF cached THEN heap.cache[id] ELSE 0]

\* saveBook(book), placed by `src`; stale: "no" when the Reader instance
\* that placed it was mounted, otherwise the id of the book that was open
\* instead ("none": the user was on another page).
PutBookReq(book, src, i, stale) ==
    Req("putBook", book.id, i, book, DefaultGoal, src, stale)

StaleTag(i) == IF i # 0 /\ ~rd[i].alive THEN OpenId ELSE "no"

\* getReadingGoal() awaited by `src`: the completion branch or updateReadingStats
GetGoalReq(src) == Req("getGoal", "none", 0, Null, DefaultGoal, src, "no")

\* saveReadingGoal(g)
PutGoalReq(g) == Req("putGoal", "none", 0, Null, g, "goal", "no")

\* a request of Library instance n: getAllBooks, saveCover, or one step of
\* deleteBook
LibReq(op, id, n) == Req(op, id, n, Null, DefaultGoal, "library", "no")

\* saveBookFile({id, data}) of processFiles, which goes on with `book`
PutFileReq(book, n) == Req("putFile", book.id, n, book, DefaultGoal, "library", "no")

----------------------------------------------------------------------------
(* Observers: they record what happened and influence nothing *)

Scenario == <<96, 97, 94, 98>>

\* scen = k: the progress events of this session so far are exactly the
\* first k of Scenario; -1 once the events differ from it.
ScenStep(s, pct) ==
    IF s >= 0 /\ s < Len(Scenario) /\ pct = Scenario[s + 1] THEN s + 1 ELSE 0 - 1

FreshObs ==
    [since |-> TimerTicks, pair |-> FALSE, any |-> FALSE, prevEff |-> FALSE,
     nDeb |-> 0, evPos |-> 0, evPct |-> 0, debPos |-> 0, debPct |-> 0]

\* A progress event arrives (pos, pct: the position and percent it reports;
\* effective: the handler did not return early).  It is the second of a pair
\* when the event before it arrived exactly one Tick earlier; `any` says
\* that at least one event of the pair was effective.  nDeb counts the
\* saveBook calls of the debounce timer since the last event.
ObsEvent(o, pos, pct, effective) ==
    LET second == o.since = 1
    IN [o EXCEPT !.since = 0,
                 !.pair = second,
                 !.any = second /\ (o.prevEff \/ effective),
                 !.prevEff = effective,
                 !.nDeb = 0,
                 !.evPos = pos, !.evPct = pct]

\* The debounce timer calls saveBook(b).
ObsDebounced(o, b) ==
    [o EXCEPT !.nDeb = IF o.nDeb < 2 THEN o.nDeb + 1 ELSE 2,
              !.debPos = b.pos, !.debPct = b.progress]

\* reads.days: the days on which updateReadingStats has computed a goal;
\* reads.base: the goal read by the first of them on the latest such day.
\* No ArrayBuffer exists: the Map is empty (0: the key has no value).
EmptyHeap == [cache |-> [id \in Ids |-> 0], handed |-> {}, detached |-> {}, next |-> 1]

\* No metadata string is being processed.
NoText == [val |-> <<>>, prev |-> <<>>, calls |-> 0]

\* useEpubReader: what onProgressUpdate was last called with, all 0 before
\* the first call
NoReport == [percentage |-> 0, cfi |-> 0, page |-> 0, total |-> 0]

\* useEpubReader before the viewer mounts
\* mounted:   the hook is mounted with fileData and a viewer element
\* cfi, titled: the props book.currentCfi and book.title/author (titled: they
\*            are the metadata extracted from the file)
\* depCfi, depTitled: their values at the last run of the effect
\* phase:     "none" (epubRef is null), "opening" (ePub(fileData) created,
\*            epub.ready pending) or "open" (renditionRef holds a rendition)
\* at:        the location on screen, 0 while rendition.display is pending
\* locations: epub.locations.length, 0 until generate() has resolved
\* progress:  the hook's progress state
\* report:    the arguments of the last onProgressUpdate call
\* listeners: the keydown listeners registered on document
\* bound:     those among them that read the mounted hook's renditionRef
\* calls:     the next()/prev() calls made by the last key press
\* inits:     the runs of the effect so far
NoEpub ==
    [mounted |-> FALSE, cfi |-> 0, titled |-> FALSE, depCfi |-> 0, depTitled |-> FALSE,
     phase |-> "none", at |-> 0, locations |-> 0,
     progress |-> [page |-> 1, total |-> 0], report |-> NoReport,
     listeners |-> 0, bound |-> 0, calls |-> 0, inits |-> 0]

\* usePdfReader in 'scrolled' mode before a document is opened
\* numPages: 0 until the document is loaded
\* target:   targetPageNumberRef.current
\* top:      the page at the top of the viewport
\* restored: initialScrollDoneRef.current or userHasScrolledRef.current
\* visiblePages: the visiblePages state
NoScroll == [numPages |-> 0, target |-> 0, top |-> 0, restored |-> FALSE, visiblePages |-> {}]

FreshReads == [days |-> {}, base |-> DefaultGoal]

\* updateReadingStats has read the goal g on day d.
ObsStats(o, g, d) ==
    [days |-> o.days \cup {d}, base |-> IF d \in o.days THEN o.base ELSE g]

\* One Tick passes.
ObsTick(o) == [o EXCEPT !.since = IF o.since < TimerTicks THEN o.since + 1 ELSE TimerTicks]

----------------------------------------------------------------------------
(* Reader.jsx: helpers of the handlers *)

\* fileCache.set followed by a size limit that drops the second key.
CacheSetDropSecond(c, id) ==
    LET c1 == IF id \in Range(c) THEN c ELSE Append(c, id)
    IN IF Len(c1) > CACHE_SIZE_LIMIT THEN <<Head(c1)>> \o Tail(Tail(c1)) ELSE c1

\* cloneArrayBuffer that returns its argument.
cloneArrayBufferSame(buffer, fresh) == buffer

\* cloneArrayBuffer(buffer): every File record holds the ArrayBuffer of
\* file.arrayBuffer(), so buffer.slice(0) runs and creates the object
\* `fresh`.  slice is only called on buffers of the cache, which are never
\* detached.
cloneArrayBuffer(buffer, fresh) == fresh

\* The objects after loadBook's slow path: getBookFile created f.data,
\* the clone is the value of key id, the keys that left the Map have no
\* value, and f.data goes to the viewer when the Reader is still mounted.
HeapAfterSlow(h, id, keys, mounted) ==
    LET fdata == h.next
        clonedData == cloneArrayBuffer(fdata, h.next + 1)
    IN [h EXCEPT !.cache = [k \in Ids |-> IF k = id THEN clonedData
                                          ELSE IF k \in Range(keys) THEN h.cache[k]
                                          ELSE 0],
                 !.handed = IF mounted THEN @ \cup {fdata} ELSE @,
                 !.next = @ + 2]

\* The objects after loadBook's fast path: the clone of cachedFile goes to
\* the viewer when the Reader is still mounted.
HeapAfterFast(h, cachedFile, mounted) ==
    [h EXCEPT !.handed = IF mounted
                         THEN @ \cup {cloneArrayBuffer(cachedFile, h.next)}
                         ELSE @,
              !.next = @ + 1]

\* fileCache.set(id, clone) followed by the size limit: a key already in the
\* Map keeps its place, a new key goes last, and the first key is dropped
\* when the Map holds more than CACHE_SIZE_LIMIT keys.
CacheSet(c, id) ==
    LET c1 == IF id \in Range(c) THEN c ELSE Append(c, id)
    IN IF Len(c1) > CACHE_SIZE_LIMIT THEN Tail(c1) ELSE c1

\* scheduleSave without `savePendingRef.current = true`: the timer runs and
\* finds nothing to save.
ScheduleSaveNoFlag(r) ==
    [r EXCEPT !.timerArmed = TRUE, !.timerLeft = TimerTicks]

\* scheduleSave: clear the running timer, mark the save pending, start a
\* timer of SaveDelayMs.
ScheduleSave(r) ==
    [r EXCEPT !.savePending = TRUE, !.timerArmed = TRUE, !.timerLeft = TimerTicks]

\* The cleanup of the flush-on-unmount effect: the requests it places.
FlushOnUnmount(r, i) ==
    IF r.savePending /\ r.bookRef # Null
    THEN <<PutBookReq(r.bookRef, "flush", i, "no")>>
    ELSE <<>>

\* An instance after its unmount.  Its timer is cleared.  Its state is gone;
\* of its refs only bookRef can still be read, by a metadata callback that
\* is still pending, so everything else is reset.
Unmounted(r) ==
    [NoReader EXCEPT !.id = r.id, !.meta = r.meta,
                     !.bookRef = IF r.meta = "pending" THEN r.bookRef ELSE Null]

\* navigate('/'): the route changes and the mounted Reader, if any, unmounts.
LeaveReader(rds, c) ==
    IF c = 0 THEN rds ELSE [rds EXCEPT ![c] = Unmounted(rds[c])]

LeaveRequests(rds, c) ==
    IF c = 0 THEN <<>> ELSE FlushOnUnmount(rds[c], c)

\* The completion branch of handleEbookProgress and handleTxtProgress.
Completes(prev, progress) ==
    progress >= FinishPercent /\ prev.status # "finished"

\* handlePdfProgress: the updated Book
PdfUpdated(prev, page, total) ==
    [prev EXCEPT !.pos = page, !.progress = RoundPercent(page, total)]

\* handleEbookProgress: the updated Book
EbookUpdated(prev, progress, cfi) ==
    [prev EXCEPT !.progress = progress, !.pos = cfi,
                 !.status = IF Completes(prev, progress) THEN "finished" ELSE @]

\* handleTxtProgress: the updated Book
TxtUpdated(prev, progress) ==
    [prev EXCEPT !.progress = progress,
                 !.status = IF Completes(prev, progress) THEN "finished" ELSE @]

\* handleMetaExtracted overwriting the title whenever one is reported
MetaUpdatedAnyTitle(prev, meta) ==
    LET t == IF meta.title # "" THEN meta.title ELSE prev.title
        a == IF meta.author # "" /\ prev.author = "" THEN meta.author ELSE prev.author
    IN [prev EXCEPT !.title = t, !.author = a]

\* handleMetaExtracted: the updated Book.  No Book has a filename field, so
\* `updated.title === prevBook.filename` is false for every title.
MetaUpdated(prev, meta) ==
    LET t == IF meta.title # "" /\ prev.title = "" THEN meta.title ELSE prev.title
        a == IF meta.author # "" /\ prev.author = "" THEN meta.author ELSE prev.author
    IN [prev EXCEPT !.title = t, !.author = a]

\* new Date().toISOString().split('T')[0]: the UTC date of the instant h,
\* as a day number.
UtcDay(h) == h \div 24

\* The time zone of the device: one hour ahead of UTC until the instant
\* DstEnd (01:00 UTC of day 3), when daylight saving time ends, and equal to
\* UTC from then on.
DstEnd == 3 * 24 + 1

\* Date.prototype.getTimezoneOffset, in hours east of UTC
ZoneOffset(h) == IF h < DstEnd THEN 1 ELSE 0

\* yesterday = new Date(); yesterday.setDate(yesterday.getDate() - 1): the
\* instant with the same local wall-clock time on the previous local date.
\* A local time that occurs twice denotes its first occurrence.
LocalYesterday(h) ==
    LET wall == h + ZoneOffset(h)
    IN IF wall - 25 < DstEnd THEN wall - 25 ELSE wall - 24

\* updateReadingStats without its `lastReadDate === today` branch
StatsUpdatedEveryCall(g, d, y) ==
    LET cs == IF g.lastReadDate = y THEN g.currentStreak + 1 ELSE 1
        ls == IF cs > g.longestStreak THEN cs ELSE g.longestStreak
    IN [g EXCEPT !.currentStreak = cs, !.longestStreak = ls,
                 !.lastReadDate = d, !.totalMinutesRead = @ + 1]

\* updateReadingStats after its getReadingGoal: the goal it saves when
\* today is the day d and yesterdayStr the day y.
StatsUpdated(g, d, y) ==
    LET same == g.lastReadDate = d
        cs == IF same THEN g.currentStreak
              ELSE IF g.lastReadDate = y THEN g.currentStreak + 1 ELSE 1
        ls == IF ~same /\ cs > g.longestStreak THEN cs ELSE g.longestStreak
    IN [g EXCEPT !.currentStreak = cs, !.longestStreak = ls,
                 !.lastReadDate = d, !.totalMinutesRead = @ + 1]

\* updateReadingStats after its getReadingGoal at the instant h
StatsAt(g, h) == StatsUpdated(g, UtcDay(h), UtcDay(LocalYesterday(h)))

\* The completion branch after its getReadingGoal: the goal it saves.
CompletionUpdated(g) ==
    [g EXCEPT !.totalBooksCompleted = @ + 1]

----------------------------------------------------------------------------
(* Initial state: the library holds the three books, just ingested; no Reader
   has been opened; the goal record does not exist yet. *)

Init ==
    /\ books = [id \in Ids |-> IF id \in Books THEN NewBook(id, 0) ELSE Null]
    /\ files = Books
    /\ goal = DefaultGoal
    /\ fileCache = <<>>
    /\ dbq = <<>>
    /\ rd = [i \in Insts |-> NoReader]
    /\ cur = 0
    /\ ninst = 0
    /\ nev = 0
    /\ nlib = 0
    /\ lib = LoadedLibrary(0, BookOrder)
    /\ now = 2 * 24 + 12
    /\ completions = [id \in Books |-> 0]
    /\ scen = 0
    /\ obs = FreshObs
    /\ reads = FreshReads
    /\ text = NoText
    /\ epub = NoEpub
    /\ scroll = NoScroll
    /\ heap = EmptyHeap

----------------------------------------------------------------------------
(* Reader.jsx: mount, render, unmount *)

\* The user opens /read/id: a Reader mounts and loadBook runs to its await.
Mount(id, maxInst) ==
    /\ cur = 0
    /\ ninst < maxInst
    /\ ninst' = ninst + 1
    /\ cur' = ninst + 1
    /\ rd' = [rd EXCEPT ![ninst + 1] = FreshReader(id)]
    /\ dbq' = Append(dbq, LoadReq(ninst + 1, id, id \in Range(fileCache)))
    /\ lib' = [lib EXCEPT !.alive = FALSE]
    /\ scen' = 0
    /\ obs' = FreshObs
    /\ UNCHANGED <<storeVars, fileCache, nev, nlib, now, reads, text, heap, viewVars, completions>>

\* The commit that follows a setBook, and the effect that copies the book
\* state into bookRef.
SyncRef ==
    /\ cur # 0
    /\ rd[cur].bookRef # rd[cur].book
    /\ rd' = [rd EXCEPT ![cur].bookRef = rd[cur].book]
    /\ UNCHANGED <<storeVars, fileCache, dbq, cur, ninst, nev, nlib, lib, now, ghostVars, text, heap, viewVars>>

\* The user leaves the reader (handleBack, or another route): the Reader
\* unmounts and the cleanup of the flush effect runs.
Unmount ==
    /\ cur # 0
    /\ rd' = LeaveReader(rd, cur)
    /\ dbq' = dbq \o LeaveRequests(rd, cur)
    /\ cur' = 0
    /\ obs' = FreshObs
    /\ UNCHANGED <<storeVars, fileCache, ninst, nev, nlib, lib, now, reads, text, heap, viewVars, completions, scen>>

----------------------------------------------------------------------------
(* Reader.jsx: progress events.  A Format Reader exists once the Reader has
   committed a render with the loaded book, so an event finds bookRef set;
   progressHandler selects the handler by book.format. *)

\* numPages of the documents of the model
PdfTotals == {100}

CanReport(fmt, maxEv) ==
    /\ cur # 0
    /\ rd[cur].bookRef # Null
    /\ rd[cur].bookRef.format = fmt
    /\ nev < maxEv

\* handlePdfProgress(page, total)
PdfProgress(page, total, maxEv) ==
    /\ CanReport("pdf", maxEv)
    /\ LET r == rd[cur]
           prev == r.bookRef
           effective == prev.pos # page
           updated == PdfUpdated(prev, page, total)
       IN /\ rd' = IF effective
                   THEN [rd EXCEPT ![cur] = ScheduleSave([r EXCEPT !.book = updated,
                                                                   !.currentPage = page])]
                   ELSE [rd EXCEPT ![cur].currentPage = page]
          /\ dbq' = IF effective THEN Append(dbq, GetGoalReq("stats")) ELSE dbq
          /\ scen' = ScenStep(scen, RoundPercent(page, total))
          /\ obs' = ObsEvent(obs, page, RoundPercent(page, total), effective)
    /\ nev' = nev + 1
    /\ UNCHANGED <<storeVars, fileCache, cur, ninst, nlib, lib, now, reads, text, heap, viewVars, completions>>

\* handleEbookProgress(progress, cfi, page, total)
EbookProgress(progress, maxEv) ==
    /\ CanReport("epub", maxEv)
    /\ LET r == rd[cur]
           prev == r.bookRef
           updated == EbookUpdated(prev, progress, progress)
           done == Completes(prev, progress)
       IN /\ rd' = [rd EXCEPT ![cur] = ScheduleSave([r EXCEPT !.book = updated])]
          /\ dbq' = dbq \o (IF done THEN <<GetGoalReq("complete")>> ELSE <<>>)
                        \o <<GetGoalReq("stats")>>
          /\ completions' = IF done
                            THEN [completions EXCEPT ![prev.id] = @ + 1]
                            ELSE completions
          /\ obs' = ObsEvent(obs, progress, progress, TRUE)
    /\ scen' = ScenStep(scen, progress)
    /\ nev' = nev + 1
    /\ UNCHANGED <<storeVars, fileCache, cur, ninst, nlib, lib, now, reads, text, heap, viewVars>>

\* handleTxtProgress(progress)
TxtProgress(progress, maxEv) ==
    /\ CanReport("txt", maxEv)
    /\ LET r == rd[cur]
           prev == r.bookRef
           effective == prev.progress # progress
           updated == TxtUpdated(prev, progress)
           done == effective /\ Completes(prev, progress)
       IN /\ rd' = IF effective
                   THEN [rd EXCEPT ![cur] = ScheduleSave([r EXCEPT !.book = updated])]
                   ELSE rd
          /\ dbq' = IF effective
                    THEN dbq \o (IF done THEN <<GetGoalReq("complete")>> ELSE <<>>)
                             \o <<GetGoalReq("stats")>>
                    ELSE dbq
          /\ completions' = IF done
                            THEN [completions EXCEPT ![prev.id] = @ + 1]
                            ELSE completions
          /\ obs' = ObsEvent(obs, prev.pos, progress, effective)
    /\ scen' = ScenStep(scen, progress)
    /\ nev' = nev + 1
    /\ UNCHANGED <<storeVars, fileCache, cur, ninst, nlib, lib, now, reads, text, heap, viewVars>>

\* The timer of scheduleSave fires.
SaveTimerFires ==
    /\ cur # 0
    /\ rd[cur].timerArmed
    /\ rd[cur].timerLeft = 0
    /\ LET r == rd[cur]
           saves == r.savePending /\ r.bookRef # Null
       IN /\ rd' = [rd EXCEPT ![cur].timerArmed = FALSE,
                              ![cur].savePending = IF saves THEN FALSE ELSE @]
          /\ dbq' = IF saves
                    THEN Append(dbq, PutBookReq(r.bookRef, "debounce", cur, "no"))
                    ELSE dbq
          /\ obs' = IF saves THEN ObsDebounced(obs, r.bookRef) ELSE obs
    /\ UNCHANGED <<storeVars, fileCache, cur, ninst, nev, nlib, lib, now, reads, text, heap, viewVars, completions, scen>>

\* TickMs pass.  Pending commits have been made and due timers have fired.
Tick ==
    /\ cur # 0 => /\ rd[cur].bookRef = rd[cur].book
                  /\ ~(rd[cur].timerArmed /\ rd[cur].timerLeft = 0)
    /\ rd' = IF cur # 0 /\ rd[cur].timerArmed
             THEN [rd EXCEPT ![cur].timerLeft = @ - 1]
             ELSE rd
    /\ obs' = ObsTick(obs)
    /\ UNCHANGED <<storeVars, fileCache, dbq, cur, ninst, nev, nlib, lib, now, reads, text, heap, viewVars, completions, scen>>

----------------------------------------------------------------------------
(* Metadata extraction (UnifiedBookReader.jsx) and handleMetaExtracted *)

\* onDocumentLoadSuccess / epub.ready: the engine has loaded the document
\* and the metadata extraction starts.
DocumentLoaded ==
    /\ cur # 0
    /\ rd[cur].bookRef # Null
    /\ rd[cur].bookRef.format \in {"pdf", "epub"}
    /\ rd[cur].meta = "idle"
    /\ rd' = [rd EXCEPT ![cur].meta = "pending",
                        ![cur].numPages = PageCount(rd[cur].id)]
    /\ UNCHANGED <<storeVars, fileCache, dbq, cur, ninst, nev, nlib, lib, now, ghostVars, text, heap, viewVars>>

\* The extraction started by instance i resolves with `meta` and calls the
\* handleMetaExtracted of that instance, mounted or not.
MetaExtracted(i, meta) ==
    /\ rd[i].meta = "pending"
    /\ LET r == rd[i]
           prev == r.bookRef
           updated == MetaUpdated(prev, meta)
           changed == prev # Null /\ updated # prev
       IN /\ rd' = [rd EXCEPT ![i] =
                      IF r.alive
                      THEN [r EXCEPT !.meta = "done",
                                     !.book = IF changed THEN updated ELSE @]
                      ELSE [r EXCEPT !.meta = "done", !.bookRef = Null]]
          /\ dbq' = IF changed
                    THEN Append(dbq, PutBookReq(updated, "meta", i, StaleTag(i)))
                    ELSE dbq
    /\ obs' = IF i = cur THEN FreshObs ELSE obs
    /\ UNCHANGED <<storeVars, fileCache, cur, ninst, nev, nlib, lib, now, reads, text, heap, viewVars, completions, scen>>

----------------------------------------------------------------------------
(* IndexedDB executes the request at the head of the queue; the code that
   awaited it runs. *)

Placed(op) == dbq # <<>> /\ Head(dbq).op = op

\* The rendering engine of the viewer takes over the bytes of fileData
\* (pdf.js transfers them to its worker): the buffer is detached.
EngineConsumes ==
    /\ cur # 0
    /\ ~rd[cur].loading
    /\ rd[cur].buffer \notin heap.detached
    /\ heap' = [heap EXCEPT !.detached = @ \cup {rd[cur].buffer}]
    /\ UNCHANGED <<storeVars, fileCache, dbq, rd, cur, ninst, nev, nlib, lib, now,
                   ghostVars, text, viewVars>>

\* usePdfReader: useState(book.currentPageNumber || 1), evaluated when the
\* viewer mounts with the loaded book (0: the other viewers keep no page).
InitialPage(b) ==
    IF b.format # "pdf" THEN 0
    ELSE IF b.pos = 0 THEN 1 ELSE b.pos

\* loadBook after its await (Reader.jsx 140-181)
LoadDone ==
    /\ Placed("load")
    /\ LET o == Head(dbq)
           i == o.inst
           b == books[o.id]
           found == IF o.src = "fast"
                    THEN b # Null
                    ELSE b # Null /\ o.id \in files
           opened == [b EXCEPT !.status = "reading"]
       IN IF ~found
          THEN \* navigate('/'); return
               /\ rd' = LeaveReader(rd, cur)
               /\ dbq' = Tail(dbq) \o LeaveRequests(rd, cur)
               /\ cur' = 0
               /\ obs' = FreshObs
               /\ UNCHANGED <<fileCache, heap>>
          ELSE /\ fileCache' = IF o.src = "slow"
                               THEN CacheSet(fileCache, o.id)
                               ELSE fileCache
               /\ heap' = IF o.src = "slow"
                          THEN HeapAfterSlow(heap, o.id, CacheSet(fileCache, o.id),
                                             rd[i].alive)
                          ELSE HeapAfterFast(heap, o.buf, rd[i].alive)
               /\ dbq' = Append(Tail(dbq), PutBookReq(opened, "load", i, StaleTag(i)))
               /\ rd' = IF rd[i].alive
                        THEN [rd EXCEPT ![i].book = opened,
                                        ![i].currentPage = InitialPage(opened),
                                        ![i].fileData = IF o.src = "fast"
                                                        THEN "cacheClone"
                                                        ELSE "stored",
                                        ![i].buffer = IF o.src = "fast"
                                                      THEN cloneArrayBuffer(o.buf, heap.next)
                                                      ELSE heap.next,
                                        ![i].loading = FALSE]
                        ELSE rd
               /\ UNCHANGED <<cur, obs>>
    /\ UNCHANGED <<storeVars, ninst, nev, nlib, lib, now, reads, text, viewVars, completions, scen>>

\* db.put('books', book).  processFiles goes on to saveCover: every cover
\* getCoverArt returns is a data: URL.
PutBookDone ==
    /\ Placed("putBook")
    /\ books' = [books EXCEPT ![Head(dbq).id] = Head(dbq).book]
    /\ dbq' = IF Head(dbq).src = "ingest"
              THEN Append(Tail(dbq), LibReq("putCover", Head(dbq).id, Head(dbq).inst))
              ELSE Tail(dbq)
    /\ UNCHANGED <<files, goal, fileCache, rd, cur, ninst, nev, nlib, lib, now, ghostVars, text, heap, viewVars>>

\* getReadingGoal resolves: the completion branch, or updateReadingStats,
\* computes the goal to save and calls saveReadingGoal.
GetGoalDone ==
    /\ Placed("getGoal")
    /\ dbq' = Append(Tail(dbq),
                     PutGoalReq(IF Head(dbq).src = "complete"
                                THEN CompletionUpdated(goal)
                                ELSE StatsAt(goal, now)))
    /\ reads' = IF Head(dbq).src = "stats"
                THEN ObsStats(reads, goal, UtcDay(now))
                ELSE reads
    /\ UNCHANGED <<storeVars, fileCache, rd, cur, ninst, nev, nlib, lib, now,
                   completions, scen, obs, text, heap, viewVars>>

\* db.put('settings', {key: 'reading-goal', value: goal})
PutGoalDone ==
    /\ Placed("putGoal")
    /\ goal' = Head(dbq).goal
    /\ dbq' = Tail(dbq)
    /\ UNCHANGED <<books, files, fileCache, rd, cur, ninst, nev, nlib, lib, now, ghostVars, text, heap, viewVars>>

----------------------------------------------------------------------------
(* Library.jsx: the books state, ingestion and deletion.  The page renders
   the list, the file input and the delete buttons once loadBooks has set
   the list; what it has started goes on after the user has left, but a
   setBooks of an unmounted instance is dropped. *)

\* Library instance n is mounted and has loaded its list.
LibraryShown == cur = 0 /\ lib.alive /\ ~lib.loading

\* setBooks(f) called by code of Library instance n
SetBooks(l, n, list) ==
    IF l.alive /\ l.inst = n THEN [l EXCEPT !.list = list] ELSE l

\* [book, ...prev] without the test that the book is already listed
WithBookAlways(list, id) == <<id>> \o list

\* (prev) => prev.some(b => b.id === id) ? prev : [book, ...prev]
WithBook(list, id) == IF id \in Range(list) THEN list ELSE <<id>> \o list

\* prev.filter(b => b.id !== bookId)
WithoutBook(list, id) == SelectSeq(list, LAMBDA x : x # id)

\* The route is '/' and the Library page mounts: loadBooks calls getAllBooks.
LibraryMount ==
    /\ cur = 0
    /\ ~lib.alive
    /\ lib' = [alive |-> TRUE, inst |-> lib.inst + 1, loading |-> TRUE, list |-> <<>>]
    /\ dbq' = Append(dbq, LibReq("getAll", "none", lib.inst + 1))
    /\ UNCHANGED <<storeVars, fileCache, rd, cur, ninst, nev, nlib, now, ghostVars, text, heap, viewVars>>

\* The user goes from the library to a page other than the reader.
LeaveLibrary(maxInst) ==
    /\ cur = 0
    /\ lib.alive
    /\ lib.inst < maxInst
    /\ lib' = [lib EXCEPT !.alive = FALSE]
    /\ UNCHANGED <<storeVars, fileCache, dbq, rd, cur, ninst, nev, nlib, now, ghostVars, text, heap, viewVars>>

\* loadBooks: getAllBooks has resolved; no listed book needs getCover, so
\* setBooks and setLoading(false) follow at once.
GetAllDone ==
    /\ Placed("getAll")
    /\ LET listed == SelectSeq(BookOrder, LAMBDA x : books[x] # Null)
       IN lib' = IF lib.alive /\ lib.inst = Head(dbq).inst
                 THEN LoadedLibrary(lib.inst, listed)
                 ELSE lib
    /\ dbq' = Tail(dbq)
    /\ UNCHANGED <<storeVars, fileCache, rd, cur, ninst, nev, nlib, now, ghostVars, text, heap, viewVars>>

\* processFiles for one file, after readFile: saveBookFile({id, data})
Ingest(id, maxLib) ==
    /\ LibraryShown
    /\ nlib < maxLib
    /\ nlib' = nlib + 1
    /\ dbq' = Append(dbq, PutFileReq(NewBook(id, nlib + 1), lib.inst))
    /\ UNCHANGED <<storeVars, fileCache, rd, cur, ninst, nev, lib, now, ghostVars, text, heap, viewVars>>

\* saveBookFile has resolved: saveBook(book)
PutFileDone ==
    /\ Placed("putFile")
    /\ files' = files \cup {Head(dbq).id}
    /\ dbq' = Append(Tail(dbq), PutBookReq(Head(dbq).book, "ingest", Head(dbq).inst, "no"))
    /\ UNCHANGED <<books, goal, fileCache, rd, cur, ninst, nev, nlib, lib, now, ghostVars, text, heap, viewVars>>

\* saveCover has resolved: setBooks adds the book unless it is listed
PutCoverDone ==
    /\ Placed("putCover")
    /\ lib' = SetBooks(lib, Head(dbq).inst, WithBook(lib.list, Head(dbq).id))
    /\ dbq' = Tail(dbq)
    /\ UNCHANGED <<storeVars, fileCache, rd, cur, ninst, nev, nlib, now, ghostVars, text, heap, viewVars>>

\* handleDeleteBook on a listed book: deleteBook(id) up to db.get('books', id)
DeleteBook(id, maxLib) ==
    /\ LibraryShown
    /\ id \in Range(lib.list)
    /\ nlib < maxLib
    /\ nlib' = nlib + 1
    /\ dbq' = Append(dbq, LibReq("delGet", id, lib.inst))
    /\ UNCHANGED <<storeVars, fileCache, rd, cur, ninst, nev, lib, now, ghostVars, text, heap, viewVars>>

\* deleteBook: the get has resolved; db.delete('books', id)
DelGetDone ==
    /\ Placed("delGet")
    /\ dbq' = Append(Tail(dbq), LibReq("delBook", Head(dbq).id, Head(dbq).inst))
    /\ UNCHANGED <<storeVars, fileCache, rd, cur, ninst, nev, nlib, lib, now, ghostVars, text, heap, viewVars>>

\* deleteBook: the Book is deleted; db.delete('files', id)
DelBookDone ==
    /\ Placed("delBook")
    /\ books' = [books EXCEPT ![Head(dbq).id] = Null]
    /\ dbq' = Append(Tail(dbq), LibReq("delFile", Head(dbq).id, Head(dbq).inst))
    /\ UNCHANGED <<files, goal, fileCache, rd, cur, ninst, nev, nlib, lib, now, ghostVars, text, heap, viewVars>>

\* deleteBook: the File is deleted; db.delete('covers', id) and the deletion
\* of the book's sessions follow (one request of the model)
DelFileDone ==
    /\ Placed("delFile")
    /\ files' = files \ {Head(dbq).id}
    /\ dbq' = Append(Tail(dbq), LibReq("delRest", Head(dbq).id, Head(dbq).inst))
    /\ UNCHANGED <<books, goal, fileCache, rd, cur, ninst, nev, nlib, lib, now, ghostVars, text, heap, viewVars>>

\* deleteBook has resolved: handleDeleteBook removes the book from the list
DelRestDone ==
    /\ Placed("delRest")
    /\ lib' = SetBooks(lib, Head(dbq).inst, WithoutBook(lib.list, Head(dbq).id))
    /\ dbq' = Tail(dbq)
    /\ UNCHANGED <<storeVars, fileCache, rd, cur, ninst, nev, nlib, now, ghostVars, text, heap, viewVars>>

\* The library holds any of the books; the other files are not ingested.
InitLibrary ==
    /\ \E held \in SUBSET Books :
          /\ books = [id \in Ids |-> IF id \in held THEN NewBook(id, 0) ELSE Null]
          /\ files = held
          /\ lib = LoadedLibrary(0, SelectSeq(BookOrder, LAMBDA x : x \in held))
    /\ goal = DefaultGoal
    /\ fileCache = <<>>
    /\ dbq = <<>>
    /\ rd = [i \in Insts |-> NoReader]
    /\ cur = 0
    /\ ninst = 0
    /\ nev = 0
    /\ nlib = 0
    /\ now = 2 * 24 + 12
    /\ completions = [id \in Books |-> 0]
    /\ scen = 0
    /\ obs = FreshObs
    /\ reads = FreshReads
    /\ text = NoText
    /\ epub = NoEpub
    /\ scroll = NoScroll
    /\ heap = EmptyHeap

----------------------------------------------------------------------------
(* Reading statistics on their own: calls of updateReadingStats and the clock *)

\* updateReadingStats(1) up to its await of getReadingGoal
UpdateReadingStats(maxCalls) ==
    /\ nev < maxCalls
    /\ nev' = nev + 1
    /\ dbq' = Append(dbq, GetGoalReq("stats"))
    /\ UNCHANGED <<storeVars, fileCache, rd, cur, ninst, nlib, lib, now, ghostVars, text, heap, viewVars>>

\* One hour passes; the clock stays before the instant `limit`.
ClockAdvance(limit) ==
    /\ now + 1 < limit
    /\ now' = now + 1
    /\ UNCHANGED <<storeVars, fileCache, dbq, rd, cur, ninst, nev, nlib, lib, ghostVars, text, heap, viewVars>>

\* Goal records the store can hold at the beginning of day 4.
DayStartGoals ==
    {DefaultGoal} \cup
    { [currentStreak |-> cs, longestStreak |-> ls, lastReadDate |-> d,
       totalBooksCompleted |-> 0, totalMinutesRead |-> 1]
        : cs \in 1..2, ls \in 1..3, d \in 2..4 }

\* The beginning of day 4 (the day after the end of daylight saving time)
\* with any of the goal records.
InitSameDay ==
    /\ books = [id \in Ids |-> IF id \in Books THEN NewBook(id, 0) ELSE Null]
    /\ files = Books
    /\ goal \in { g \in DayStartGoals : g.currentStreak <= g.longestStreak }
    /\ fileCache = <<>>
    /\ dbq = <<>>
    /\ rd = [i \in Insts |-> NoReader]
    /\ cur = 0
    /\ ninst = 0
    /\ nev = 0
    /\ nlib = 0
    /\ lib = LoadedLibrary(0, BookOrder)
    /\ now = 4 * 24
    /\ completions = [id \in Books |-> 0]
    /\ scen = 0
    /\ obs = FreshObs
    /\ reads = FreshReads
    /\ text = NoText
    /\ epub = NoEpub
    /\ scroll = NoScroll
    /\ heap = EmptyHeap

----------------------------------------------------------------------------
(* UnifiedBookReader.jsx: the fixed-layout viewer in paginated mode, the
   default scroll direction.  Its current page changes, and a progress event
   is sent, only in handlePageChange, which the 'previous' and 'next'
   controls and the page slider call. *)

\* The paginated PDF viewer is on screen for the mounted Reader.
PdfViewer ==
    /\ cur # 0
    /\ ~rd[cur].loading
    /\ rd[cur].book.format = "pdf"

\* The viewer has loaded its document: numPages is set.
PdfLoaded == PdfViewer /\ rd[cur].numPages >= 1

\* Math.max(1, Math.min(numPages, page))
PageClamp(page, numPages) ==
    LET low == IF numPages < page THEN numPages ELSE page
    IN IF low < 1 THEN 1 ELSE low

\* usePdfReader.handlePageChange(page): setCurrentPage(newPage), then
\* onProgressUpdate(newPage, numPages), which is handlePdfProgress.
HandlePageChange(page, maxEv) ==
    PdfProgress(PageClamp(page, rd[cur].numPages), rd[cur].numPages, maxEv)

\* handlePagePrev: the left edge zone or the 'previous' button.  The edge
\* zones are on screen and enabled as soon as the viewer is.
PdfPrev(maxEv) ==
    /\ PdfViewer
    /\ HandlePageChange(rd[cur].currentPage - 1, maxEv)

\* handlePageNext: the right edge zone or the 'next' button
PdfNext(maxEv) ==
    /\ PdfViewer
    /\ HandlePageChange(rd[cur].currentPage + 1, maxEv)

\* The values the user drags the page slider to (min 1, max numPages).
SliderStops(numPages) == {1, 2, numPages - 1, numPages}

\* The page slider's onValueChange([v])
PdfSlider(v, maxEv) ==
    /\ PdfLoaded
    /\ v \in SliderStops(rd[cur].numPages)
    /\ HandlePageChange(v, maxEv)

\* The library of the resume scenario: next to the initial books, the
\* 200-page document p2 was read up to page 150 in an earlier session.
ResumeBook ==
    [NewBook("p2", 0) EXCEPT !.status = "reading", !.pos = 150,
                             !.progress = RoundPercent(150, PageCount("p2"))]

InitResume ==
    /\ books = [id \in Ids |-> IF id = "p2" THEN ResumeBook ELSE NewBook(id, 0)]
    /\ files = Ids
    /\ goal = DefaultGoal
    /\ fileCache = <<>>
    /\ dbq = <<>>
    /\ rd = [i \in Insts |-> NoReader]
    /\ cur = 0
    /\ ninst = 0
    /\ nev = 0
    /\ nlib = 0
    /\ lib = LoadedLibrary(0, <<"e1", "p1", "p2", "t1">>)
    /\ now = 2 * 24 + 12
    /\ completions = [id \in Books |-> 0]
    /\ scen = 0
    /\ obs = FreshObs
    /\ reads = FreshReads
    /\ text = NoText
    /\ epub = NoEpub
    /\ scroll = NoScroll
    /\ heap = EmptyHeap

----------------------------------------------------------------------------
(* lib/meta-utils.js.  A JavaScript string is the sequence of its UTF-16
   code units; the empty string is the falsy value the functions test
   with `!s`. *)

\* The printable ASCII characters in code order, from code 32 on (the
\* double quote, the backslash and the backtick by name).
Ascii ==
    << " ", "!", "DQUOTE", "#", "$", "%", "&", "'", "(", ")", "*", "+",
       ",", "-", ".", "/", "0", "1", "2", "3", "4", "5", "6", "7",
       "8", "9", ":", ";", "<", "=", ">", "?", "@", "A", "B", "C",
       "D", "E", "F", "G", "H", "I", "J", "K", "L", "M", "N", "O",
       "P", "Q", "R", "S", "T", "U", "V", "W", "X", "Y", "Z", "[",
       "BACKSLASH", "]", "^", "_", "BACKTICK", "a", "b", "c", "d", "e", "f", "g",
       "h", "i", "j", "k", "l", "m", "n", "o", "p", "q", "r", "s",
       "t", "u", "v", "w", "x", "y", "z", "{", "|", "}", "~" >>

\* The code unit of a character; TAB, LF and CR name control characters.
Code(c) ==
    CASE c = "TAB" -> 9
      [] c = "LF"  -> 10
      [] c = "CR"  -> 13
      [] OTHER     -> 31 + CHOOSE i \in 1..Len(Ascii) : Ascii[i] = c

Str(cs) == [i \in 1..Len(cs) |-> Code(cs[i])]

\* Character classes of the regular expressions.
Digit == 48..57
Alpha == (65..90) \cup (97..122)
Alnum == Alpha \cup Digit
WordChar == Alnum \cup {95}
HexDigit == Digit \cup (65..70) \cup (97..102)
WhiteSpace ==
    {9, 10, 11, 12, 13, 32, 160, 5760, 8232, 8233, 8239, 8287, 12288, 65279}
        \cup (8192..8202)
LineTerminator == {10, 13, 8232, 8233}

\* s[i], or -1 outside the string
At(s, i) == IF i \in 1..Len(s) THEN s[i] ELSE -1

\* The ASCII lower case of a code unit (the /i flag folds nothing else
\* onto an ASCII letter).
LowerCase(c) == IF c \in 65..90 THEN c + 32 ELSE c

\* The length of the run of characters of `set` that starts at s[i].
RECURSIVE RunLen(_, _, _)
RunLen(s, i, set) ==
    IF i > Len(s) \/ s[i] \notin set THEN 0 ELSE 1 + RunLen(s, i + 1, set)

\* The length of the run of characters other than c that starts at s[i].
RECURSIVE RunLenNot(_, _, _)
RunLenNot(s, i, c) ==
    IF i > Len(s) \/ s[i] = c THEN 0 ELSE 1 + RunLenNot(s, i + 1, c)

\* The length of the run of characters of `set` that ends at s[i].
RECURSIVE RunLenBack(_, _, _)
RunLenBack(s, i, set) ==
    IF i < 1 \/ s[i] \notin set THEN 0 ELSE 1 + RunLenBack(s, i - 1, set)

\* String.prototype.trim
Trim(s) ==
    LET a == RunLen(s, 1, WhiteSpace)
        b == RunLenBack(s, Len(s), WhiteSpace)
    IN IF a = Len(s) THEN <<>> ELSE SubSeq(s, a + 1, Len(s) - b)

\* s.replace(/[set]{minLen,}/g, rep), from s[i] on
RECURSIVE ReplaceRuns(_, _, _, _, _)
ReplaceRuns(s, i, set, minLen, rep) ==
    IF i > Len(s) THEN <<>>
    ELSE LET r == RunLen(s, i, set)
         IN IF r >= minLen
            THEN rep \o ReplaceRuns(s, i + r, set, minLen, rep)
            ELSE <<s[i]>> \o ReplaceRuns(s, i + 1, set, minLen, rep)

\* The first index where the string w occurs in s, 0 if none.
IndexOf(s, w) ==
    LET hits == { i \in 1..(Len(s) - Len(w) + 1) : SubSeq(s, i, i + Len(w) - 1) = w }
    IN IF hits = {} THEN 0 ELSE CHOOSE i \in hits : \A j \in hits : i <= j

\* The last index of a character of `set` in s, 0 if none.
LastIndexIn(s, set) ==
    LET hits == { i \in 1..Len(s) : s[i] \in set }
    IN IF hits = {} THEN 0 ELSE CHOOSE i \in hits : \A j \in hits : j <= i

\* /w/i.test(s) for a literal word w
ContainsWord(s, w) ==
    \E i \in 1..(Len(s) - Len(w) + 1) :
        \A j \in 1..Len(w) : LowerCase(s[i + j - 1]) = LowerCase(w[j])

\* decodeRFC2047, the Q branch: _ becomes a space, =XX the code unit XX.
HexVal(c) ==
    IF c \in Digit THEN c - 48
    ELSE IF c \in 65..70 THEN c - 55 ELSE c - 87

RECURSIVE HexUnescape(_, _)
HexUnescape(s, i) ==
    IF i > Len(s) THEN <<>>
    ELSE IF s[i] = 61 /\ At(s, i + 1) \in HexDigit /\ At(s, i + 2) \in HexDigit
         THEN <<16 * HexVal(s[i + 1]) + HexVal(s[i + 2])>> \o HexUnescape(s, i + 3)
         ELSE <<s[i]>> \o HexUnescape(s, i + 1)

QDecode(encoded) ==
    HexUnescape([i \in 1..Len(encoded) |-> IF encoded[i] = 95 THEN 32 ELSE encoded[i]], 1)

\* decodeRFC2047, the B branch.  atob: the 6-bit value of a base64
\* character, -1 for any other character.
Base64Val(c) ==
    IF c \in 65..90 THEN c - 65
    ELSE IF c \in 97..122 THEN c - 71
    ELSE IF c \in Digit THEN c + 4
    ELSE IF c = 43 THEN 62
    ELSE IF c = 47 THEN 63 ELSE -1

RECURSIVE Base64Bytes(_)
Base64Bytes(v) ==
    IF Len(v) >= 4
    THEN LET n == ((v[1] * 64 + v[2]) * 64 + v[3]) * 64 + v[4]
         IN <<n \div 65536, (n \div 256) % 256, n % 256>>
                \o Base64Bytes(SubSeq(v, 5, Len(v)))
    ELSE IF Len(v) = 3
    THEN LET n == ((v[1] * 64 + v[2]) * 64 + v[3]) \div 4
         IN <<n \div 256, n % 256>>
    ELSE IF Len(v) = 2
    THEN <<(v[1] * 64 + v[2]) \div 16>>
    ELSE <<>>

\* atob(data): the bytes, or <<-1>> when atob throws.
Atob(data) ==
    LET pad == IF Len(data) % 4 = 0 /\ Len(data) > 0
               THEN (IF data[Len(data)] # 61 THEN 0
                     ELSE IF data[Len(data) - 1] # 61 THEN 1 ELSE 2)
               ELSE 0
        body == SubSeq(data, 1, Len(data) - pad)
    IN IF Len(body) % 4 = 1 \/ \E i \in 1..Len(body) : Base64Val(body[i]) = -1
       THEN <<-1>>
       ELSE Base64Bytes([i \in 1..Len(body) |-> Base64Val(body[i])])

\* new TextDecoder(charset): the labels of UTF-8 the model knows; with any
\* other label of the model's inputs the constructor throws.
Utf8Labels == { Str(<<"u", "t", "f", "-", "8">>), Str(<<"u", "t", "f", "8">>) }

\* TextDecoder.decode for UTF-8: a byte below 128 is its character.  The
\* inputs of the model encode no byte from 128 on, which is shown as U+FFFD.
Utf8Decode(bytes) ==
    [i \in 1..Len(bytes) |-> IF bytes[i] < 128 THEN bytes[i] ELSE 65533]

BDecode(str, charset, encoded) ==
    LET bytes == Atob(SelectSeq(encoded, LAMBDA c : c \notin WhiteSpace))
        label == Trim([i \in 1..Len(charset) |-> LowerCase(charset[i])])
    IN IF bytes = <<-1>> \/ label \notin Utf8Labels
       THEN str
       ELSE Utf8Decode(bytes)

\* /=\?([^?]+)\?([BQ])\?([^?]+)\?=/i matches at s[i]: the two groups are
\* the maximal runs without '?'.
EncodedWordAt(s, i) ==
    LET c == RunLenNot(s, i + 2, 63)
        e == RunLenNot(s, i + 5 + c, 63)
    IN /\ At(s, i) = 61 /\ At(s, i + 1) = 63
       /\ c >= 1
       /\ At(s, i + 2 + c) = 63
       /\ At(s, i + 3 + c) \in {66, 81, 98, 113}
       /\ At(s, i + 4 + c) = 63
       /\ e >= 1
       /\ At(s, i + 5 + c + e) = 63 /\ At(s, i + 6 + c + e) = 61

decodeRFC2047(str) ==
    LET hits == { i \in 1..Len(str) : EncodedWordAt(str, i) }
    IN IF hits = {} THEN str
       ELSE LET i == CHOOSE h \in hits : \A j \in hits : h <= j
                c == RunLenNot(str, i + 2, 63)
                e == RunLenNot(str, i + 5 + c, 63)
                charset == SubSeq(str, i + 2, i + 1 + c)
                encoded == SubSeq(str, i + 5 + c, i + 4 + c + e)
            IN IF str[i + 3 + c] \in {66, 98}
               THEN BDecode(str, charset, encoded)
               ELSE QDecode(encoded)

\* /[\\/].+\.[a-zA-Z0-9]{1,6}$/.test(s)
LooksLikePath(s) ==
    \E k \in 1..Len(s) :
        /\ s[k] = 46
        /\ Len(s) - k \in 1..6
        /\ \A j \in (k + 1)..Len(s) : s[j] \in Alnum
        /\ \E i \in 1..(k - 2) :
              /\ s[i] \in {47, 92}
              /\ \A j \in (i + 1)..(k - 1) : s[j] \notin LineTerminator

\* parts[parts.length - 1] of s.split(/[\\/]/)
Basename(s) == SubSeq(s, LastIndexIn(s, {47, 92}) + 1, Len(s))

\* name.replace(/\.[^.]+$/, '')
StripExtension(name) ==
    LET k == LastIndexIn(name, {46})
    IN IF k = 0 \/ k = Len(name) THEN name ELSE SubSeq(name, 1, k - 1)

\* The generator and vendor words of the tail test.
VendorWords ==
    { Str(<<"a", "d", "o", "b", "e">>),
      Str(<<"a", "c", "r", "o", "b", "a", "t">>),
      Str(<<"e", "b", "o", "o", "k">>),
      Str(<<"k", "i", "n", "d", "l", "e">>),
      Str(<<"e", "p", "u", "b">>),
      Str(<<"p", "d", "f">>),
      Str(<<"g", "e", "n", "e", "r", "a", "t", "o", "r">>),
      Str(<<"c", "a", "l", "i", "b", "r", "e">>) }

\* dashParts.length > 1 and the tail names a generator or a vendor
HasVendorTail(s) ==
    LET k == IndexOf(s, <<32, 45, 32>>)
    IN /\ k > 0
       /\ \E w \in VendorWords : ContainsWord(SubSeq(s, k + 3, Len(s)), w)

\* dashParts[0]
BeforeDash(s) == SubSeq(s, 1, IndexOf(s, <<32, 45, 32>>) - 1)

\* [A-Za-z0-9\s,.'-]
MetaChars == Alnum \cup WhiteSpace \cup {39, 44, 45, 46}

\* /^untitled$/i.test(s)
IsUntitled(s) ==
    LET w == Str(<<"u", "n", "t", "i", "t", "l", "e", "d">>)
    IN Len(s) = Len(w) /\ ContainsWord(s, w)

cleanMetaString(s, fallback) ==
    IF s = <<>> THEN fallback
    ELSE LET a == Trim(SelectSeq(s, LAMBDA c : c # 0))
             b == ReplaceRuns(a, 1, {10, 13}, 1, <<32>>)
             c == Trim(ReplaceRuns(ReplaceRuns(b, 1, {95}, 1, <<32>>),
                                   1, WhiteSpace, 2, <<32>>))
             d == decodeRFC2047(c)
             e == IF LooksLikePath(d) THEN StripExtension(Basename(d)) ELSE d
             out == IF HasVendorTail(e) THEN BeforeDash(e) ELSE e
             stripped == SelectSeq(out, LAMBDA ch : ch \in MetaChars)
         IN IF Len(stripped) < 2 \/ IsUntitled(out)
            THEN (IF fallback # <<>> THEN fallback ELSE out)
            ELSE out

\* The length of the match of /;|\band\b|\n/ at s[i], 0 if there is none.
AuthorSepLen(s, i) ==
    IF s[i] \in {59, 10} THEN 1
    ELSE IF /\ i + 2 <= Len(s)
            /\ SubSeq(s, i, i + 2) = <<97, 110, 100>>
            /\ At(s, i - 1) \notin WordChar
            /\ At(s, i + 3) \notin WordChar
         THEN 3 ELSE 0

\* s.split(/;|\band\b|\n/): the pieces of s from s[start] on, the scan
\* being at s[i].
RECURSIVE SplitAuthors(_, _, _)
SplitAuthors(s, i, start) ==
    IF i > Len(s) THEN <<SubSeq(s, start, Len(s))>>
    ELSE LET n == AuthorSepLen(s, i)
         IN IF n > 0
            THEN <<SubSeq(s, start, i - 1)>> \o SplitAuthors(s, i + n, i + n)
            ELSE SplitAuthors(s, i + 1, start)

\* part.split(',')
RECURSIVE SplitCommas(_, _, _)
SplitCommas(s, i, start) ==
    IF i > Len(s) THEN <<SubSeq(s, start, Len(s))>>
    ELSE IF s[i] = 44
         THEN <<SubSeq(s, start, i - 1)>> \o SplitCommas(s, i + 1, i + 1)
         ELSE SplitCommas(s, i + 1, start)

\* parts.map(p => p.trim()).filter(Boolean)
TrimmedParts(parts) ==
    SelectSeq([i \in 1..Len(parts) |-> Trim(parts[i])], LAMBDA p : p # <<>>)

\* /^[A-Za-z\- ]+$/.test(s)
NameLike(s) == s # <<>> /\ \A i \in 1..Len(s) : s[i] \in Alpha \cup {45, 32}

\* The callback of parts.map in normalizeAuthor
NormalizePart(part) ==
    LET commaParts == TrimmedParts(SplitCommas(part, 1, 1))
    IN IF Len(commaParts) = 2 /\ NameLike(commaParts[1]) /\ NameLike(commaParts[2])
       THEN Trim(commaParts[2] \o <<32>> \o commaParts[1])
       ELSE part

\* normalizedParts.join(', ')
RECURSIVE JoinParts(_)
JoinParts(parts) ==
    IF parts = <<>> THEN <<>>
    ELSE IF Len(parts) = 1 THEN parts[1]
    ELSE parts[1] \o <<44, 32>> \o JoinParts(Tail(parts))

normalizeAuthor(raw) ==
    IF raw = <<>> THEN raw
    ELSE LET s == Trim(raw)
         IN IF s = <<>> THEN <<>>
            ELSE LET parts == TrimmedParts(SplitAuthors(s, 1, 1))
                 IN JoinParts([i \in 1..Len(parts) |-> NormalizePart(parts[i])])

\* extractPdfMetaObject and the EPUB metadata handler clean the strings an
\* engine reports.  MaxLen bounds the strings the model draws.
MaxLen == 4

\* All strings over the characters cs with at most n characters.
StringsUpTo(cs, n) ==
    UNION { [1..k -> { Code(c) : c \in cs }] : k \in 0..n }

\* An encoded word =?u?Q?payload?=
QWord(payload) == Str(<<"=", "?", "u", "?", "Q", "?">>) \o payload \o Str(<<"?", "=">>)

\* An encoded word =?utf-8?B?payload?=
BWord(payload) ==
    Str(<<"=", "?", "u", "t", "f", "-", "8", "?", "B", "?">>) \o payload \o Str(<<"?", "=">>)

\* The strings handed to cleanMetaString: short titles with underscores,
\* separators, dots and blanks; the same before a vendor tail; Q- and
\* B-encoded words.
CleanInputs ==
    LET short == StringsUpTo({"x", "_", " ", "/", ".", "TAB"}, MaxLen)
        tails == { Str(<<" ", "-", " ", "P", "D", "F">>),
                   Str(<<" ", "-", " ", "v", "2">>) }
    IN short
         \cup { s \o t : s \in StringsUpTo({"x", " ", "TAB"}, MaxLen - 2), t \in tails }
         \cup { QWord(p) : p \in StringsUpTo({"x", "_", "=", "5", "F"}, MaxLen - 1) \ {<<>>} }
         \cup { BWord(p) : p \in { Str(<<"e", "A", "=", "=">>), Str(<<"e", "H", "g", "=">>),
                                  Str(<<"X", "1", "8", "=">>), Str(<<"e">>) } }

\* The strings handed to normalizeAuthor: one to three names, bare or in
\* 'Last, First' form, separated by ';', 'and' or a newline.
AuthorNames == { Str(<<"x">>), Str(<<"y", "z">>), Str(<<"x", ",", " ", "y">>),
                 Str(<<"h", "a", "n", "d">>) }
AuthorSeps == { Str(<<";">>), Str(<<";", " ">>), Str(<<" ", "a", "n", "d", " ">>),
                Str(<<"LF">>) }
AuthorInputs ==
    LET two == { a \o s \o b : a \in AuthorNames, s \in AuthorSeps, b \in AuthorNames }
    IN StringsUpTo({"x", ",", ";", " "}, MaxLen - 1)
         \cup AuthorNames \cup two
         \cup { t \o s \o c : t \in two, s \in {Str(<<";", " ">>)}, c \in {Str(<<"x", ",", " ", "y">>)} }

\* The program holds the metadata string `s`; no book is open.
InitText(inputs) ==
    /\ books = [id \in Ids |-> IF id \in Books THEN NewBook(id, 0) ELSE Null]
    /\ files = Books
    /\ goal = DefaultGoal
    /\ fileCache = <<>>
    /\ dbq = <<>>
    /\ rd = [i \in Insts |-> NoReader]
    /\ cur = 0
    /\ ninst = 0
    /\ nev = 0
    /\ nlib = 0
    /\ lib = LoadedLibrary(0, BookOrder)
    /\ now = 2 * 24 + 12
    /\ completions = [id \in Books |-> 0]
    /\ scen = 0
    /\ obs = FreshObs
    /\ reads = FreshReads
    /\ \E s \in inputs : text = [val |-> s, prev |-> s, calls |-> 0]
    /\ epub = NoEpub
    /\ scroll = NoScroll
    /\ heap = EmptyHeap

InitClean == InitText(CleanInputs)

InitAuthor == InitText(AuthorInputs)

\* out = cleanMetaString(out)
CleanMeta(maxCalls) ==
    /\ text.calls < maxCalls
    /\ text' = [val |-> cleanMetaString(text.val, <<>>), prev |-> text.val,
                calls |-> text.calls + 1]
    /\ UNCHANGED <<storeVars, fileCache, dbq, rd, cur, ninst, nev, nlib, lib, now,
                   completions, scen, obs, reads, heap, viewVars>>

\* author = normalizeAuthor(author)
NormalizeAuthorCall(maxCalls) ==
    /\ text.calls < maxCalls
    /\ text' = [val |-> normalizeAuthor(text.val), prev |-> text.val,
                calls |-> text.calls + 1]
    /\ UNCHANGED <<storeVars, fileCache, dbq, rd, cur, ninst, nev, nlib, lib, now,
                   completions, scen, obs, reads, heap, viewVars>>

----------------------------------------------------------------------------
(* The reflowable viewer: useEpubReader (UnifiedBookReader.jsx 35-143) *)

\* The hook is modelled for one EPUB of LocationCount locations.  A CFI is
\* modelled by the ordinal of the location that starts at it; 0 is an absent
\* book.currentCfi.
LocationCount == 3

\* bound: runs of the hook's effect
MaxInits == 3

\* The arguments of onProgressUpdate at the location of ordinal `cfi`
Report(cfi, total) ==
    [percentage |-> RoundPercent(cfi, total), cfi |-> cfi, page |-> cfi, total |-> total]

\* The effect body up to epub.ready (lines 43-58): a new book is opened.
EffectRun(e) ==
    [e EXCEPT !.phase = "opening", !.at = 0, !.locations = 0,
              !.depCfi = e.cfi, !.depTitled = e.titled, !.inits = e.inits + 1]

\* cleanup (lines 48-56), the function the effect returns: it destroys the
\* book and clears the two refs, and removes no listener.
EpubCleanup(e) == [e EXCEPT !.phase = "none", !.at = 0, !.locations = 0]

\* handleRelocated (lines 103-111) at location `loc`, with the setBook of
\* the controller's handleEbookProgress (Reader.jsx 237-264) that stores the
\* CFI in book.currentCfi.
HandleRelocated(e, loc) ==
    IF e.locations = 0 THEN e
    ELSE [e EXCEPT !.progress = [page |-> loc, total |-> e.locations],
                   !.report = Report(loc, e.locations),
                   !.cfi = loc]

EpubStep(e) ==
    /\ epub' = e
    /\ UNCHANGED <<storeVars, fileCache, dbq, rd, cur, ninst, nev, nlib, lib, now,
                   ghostVars, text, heap, scroll>>

\* The viewer mounts: the hook's state is initial and the effect runs.
EpubMount ==
    /\ ~epub.mounted
    /\ epub.inits < MaxInits
    /\ EpubStep(EffectRun([epub EXCEPT !.mounted = TRUE, !.bound = 0,
                                       !.progress = NoEpub.progress]))

\* epub.ready.then (lines 58-140): the rendition is created, the metadata is
\* reported (the controller stores a title or author that differs), display
\* and generate are started, and handleKeyDown is added to document.
EpubReady ==
    /\ epub.phase = "opening"
    /\ EpubStep([epub EXCEPT !.phase = "open", !.titled = TRUE,
                             !.listeners = @ + 1, !.bound = @ + 1])

\* rendition.display(book.currentCfi || undefined) has shown its target and
\* the rendition emits 'relocated'.
EpubDisplayed ==
    /\ epub.phase = "open"
    /\ epub.at = 0
    /\ LET loc == IF epub.depCfi = 0 THEN 1 ELSE epub.depCfi
       IN EpubStep(HandleRelocated([epub EXCEPT !.at = loc], loc))

\* epub.locations.generate has resolved (lines 97-99).
EpubGenerated ==
    /\ epub.phase = "open"
    /\ epub.locations = 0
    /\ EpubStep([epub EXCEPT !.locations = LocationCount,
                             !.progress = [@ EXCEPT !.total = LocationCount]])

\* A press of ArrowRight (dir 1) or ArrowLeft (dir -1): every registered
\* handleKeyDown (lines 116-120) whose renditionRef holds a rendition calls
\* next() or prev() on it; the rendition emits 'relocated' when it has moved.
EpubKey(dir) ==
    /\ epub.phase = "open"
    /\ epub.at > 0
    /\ LET moved == epub.at + dir * epub.bound
           loc == IF moved < 1 THEN 1
                  ELSE IF moved > LocationCount THEN LocationCount ELSE moved
           pressed == [epub EXCEPT !.calls = epub.bound, !.at = loc]
       IN EpubStep(IF loc = epub.at THEN pressed ELSE HandleRelocated(pressed, loc))

\* A commit in which book.currentCfi, book.title or book.author differs from
\* the last run's: React runs the cleanup and the effect again (line 143).
EpubRerun ==
    /\ epub.mounted
    /\ epub.cfi # epub.depCfi \/ epub.titled # epub.depTitled
    /\ epub.inits < MaxInits
    /\ EpubStep(EffectRun(EpubCleanup(epub)))

\* The viewer unmounts: React runs the cleanup.  The listeners stay on
\* document; their renditionRef stays null.
EpubUnmount ==
    /\ epub.mounted
    /\ EpubStep([EpubCleanup(epub) EXCEPT !.mounted = FALSE, !.bound = 0])

----------------------------------------------------------------------------
(* The PDF viewer in 'scrolled' mode: usePdfReader (UnifiedBookReader.jsx 185-437) *)

\* const BUFFER_PAGES = 3
BUFFER_PAGES == 3

\* rootMargin '200% 0px' of the visible-pages observer: with pages about as
\* high as the viewport, the pages up to two before and two after the page
\* on screen intersect the root.
MarginPages == 2

\* The page counts of the documents opened.
ScrollDocs == {12, 24}

Around(p, k, numPages) == { q \in 1..numPages : q >= p - k /\ q <= p + k }

\* The pages the observer of lines 360-379 reports as intersecting when page
\* p is on screen.
Intersecting(p, numPages) == Around(p, MarginPages, numPages)

\* The observer's callback: intersecting pages are added to visiblePages;
\* an entry that is no longer intersecting changes nothing.
Observed(s) ==
    [s EXCEPT !.visiblePages = @ \cup Intersecting(s.top, s.numPages)]

\* pagesToRender (lines 200-226) in 'scrolled' mode with a loaded document
pagesToRender(s) ==
    Around(s.target, BUFFER_PAGES, s.numPages)
        \cup s.visiblePages
        \cup UNION { Around(vp, BUFFER_PAGES, s.numPages) : vp \in s.visiblePages }

ScrollStep(s) ==
    /\ scroll' = s
    /\ UNCHANGED <<storeVars, fileCache, dbq, rd, cur, ninst, nev, nlib, lib, now,
                   ghostVars, text, heap, epub>>

\* onDocumentLoadSuccess (lines 234-250) for a book stored at page `page`;
\* the observer of the new page elements reports at scroll position 0.
ScrollOpen(numPages, page) ==
    /\ scroll.numPages = 0
    /\ ScrollStep(Observed([NoScroll EXCEPT !.numPages = numPages, !.target = page, !.top = 1]))

\* The scroll restoration (lines 257-341) puts the target page on screen.
ScrollRestore ==
    /\ scroll.numPages > 0
    /\ ~scroll.restored
    /\ ScrollStep(Observed([scroll EXCEPT !.top = scroll.target, !.restored = TRUE]))

\* The user scrolls one page down (d = 1) or up (d = -1).
ScrollBy(d) ==
    /\ scroll.numPages > 0
    /\ scroll.top + d \in 1..scroll.numPages
    /\ ScrollStep(Observed([scroll EXCEPT !.top = scroll.top + d, !.restored = TRUE]))

\* The viewer unmounts.
ScrollClose ==
    /\ scroll.numPages > 0
    /\ ScrollStep(NoScroll)

\* No book is open and no metadata is held; the reflowable book's stored CFI
\* is `cfi`.
InitIdle(cfi) ==
    /\ books = [id \in Ids |-> IF id \in Books THEN NewBook(id, 0) ELSE Null]
    /\ files = Books
    /\ goal = DefaultGoal
    /\ fileCache = <<>>
    /\ dbq = <<>>
    /\ rd = [i \in Insts |-> NoReader]
    /\ cur = 0
    /\ ninst = 0
    /\ nev = 0
    /\ nlib = 0
    /\ lib = LoadedLibrary(0, BookOrder)
    /\ now = 2 * 24 + 12
    /\ completions = [id \in Books |-> 0]
    /\ scen = 0
    /\ obs = FreshObs
    /\ reads = FreshReads
    /\ text = NoText
    /\ heap = EmptyHeap
    /\ epub = [NoEpub EXCEPT !.cfi = cfi]
    /\ scroll = NoScroll

InitEpub == \E cfi \in {0, 2} : InitIdle(cfi)

InitScroll == InitIdle(0)

----------------------------------------------------------------------------
(* Specifications *)

\* The mounted Reader has finished loadBook and has committed every
\* setBook: bookRef holds the book state.
Settled == cur # 0 => (~rd[cur].loading /\ rd[cur].bookRef = rd[cur].book)

ReaderDb ==
    \/ LoadDone
    \/ PutBookDone
    \/ GetGoalDone
    \/ PutGoalDone

LibraryDb ==
    \/ GetAllDone
    \/ PutFileDone
    \/ PutCoverDone
    \/ DelGetDone
    \/ DelBookDone
    \/ DelFileDone
    \/ DelRestDone

TimeStep ==
    \/ SaveTimerFires
    \/ Tick

MetaStep ==
    \/ DocumentLoaded
    \/ \E i \in Insts, m \in Metas : MetaExtracted(i, m)

\* Spec: the Reader page with every schedule of its callbacks.  All three
\* formats, up to MaxInst opens and MaxEvents progress events.
Next ==
    \/ \E id \in Books : Mount(id, MaxInst)
    \/ SyncRef
    \/ Unmount
    \/ \E page \in {50, 96}, total \in PdfTotals : PdfProgress(page, total, MaxEvents)
    \/ \E pct \in {50, 96} : EbookProgress(pct, MaxEvents)
    \/ \E pct \in {50, 96} : TxtProgress(pct, MaxEvents)
    \/ TimeStep
    \/ MetaStep
    \/ ReaderDb

Spec == Init /\ [][Next]_vars

\* SpecScenario: one reading session of the reflowable or the plain-text
\* book with as many progress events as the scenario has.
NextScenario ==
    \/ \E id \in {"e1", "t1"} : Mount(id, 1)
    \/ SyncRef
    \/ \E pct \in Percents : EbookProgress(pct, Len(Scenario))
    \/ \E pct \in Percents : TxtProgress(pct, Len(Scenario))
    \/ ReaderDb

SpecScenario == Init /\ [][NextScenario]_vars

\* SpecLifetime: books are opened, read, closed, re-opened, ingested again
\* and deleted by a user who is slower than a commit: every progress event
\* and every close finds the book loaded and the previous setBook committed.
NextLifetime ==
    \/ SyncRef
    \/ \E id \in {"e1", "p1"} : Mount(id, MaxInst)
    \/ Settled /\ Unmount
    \/ Settled /\ \E page \in {96}, total \in PdfTotals : PdfProgress(page, total, MaxEvents)
    \/ Settled /\ \E pct \in {96} : EbookProgress(pct, MaxEvents)
    \/ \E id \in {"e1"} : Ingest(id, MaxLibOps)
    \/ \E id \in {"e1"} : DeleteBook(id, MaxLibOps)
    \/ LibraryMount
    \/ ReaderDb
    \/ LibraryDb

SpecLifetime == Init /\ [][NextLifetime]_vars

\* SpecDebounce: one reading session with the clock.
NextDebounce ==
    \/ \E id \in Books : Mount(id, 1)
    \/ SyncRef
    \/ Unmount
    \/ \E page \in {1, 50}, total \in PdfTotals : PdfProgress(page, total, MaxEvents + 1)
    \/ \E pct \in {1, 50} : EbookProgress(pct, MaxEvents + 1)
    \/ \E pct \in {1, 50} : TxtProgress(pct, MaxEvents + 1)
    \/ TimeStep
    \/ MetaStep
    \/ ReaderDb

SpecDebounce == Init /\ [][NextDebounce]_vars

\* SpecStreak: updateReadingStats is called again and again, each call
\* after the one before it has saved its goal, while days pass.
NextStreak ==
    \/ ClockAdvance(6 * 24)
    \/ dbq = <<>> /\ UpdateReadingStats(MaxEvents + 1)
    \/ GetGoalDone
    \/ PutGoalDone

SpecStreak == Init /\ [][NextStreak]_vars

\* SpecSameDay: calls of updateReadingStats within day 4, one after another
\* or with their requests interleaved.
NextSameDay ==
    \/ ClockAdvance(5 * 24)
    \/ UpdateReadingStats(MaxEvents + 1)
    \/ GetGoalDone
    \/ PutGoalDone

SpecSameDay == InitSameDay /\ [][NextSameDay]_vars

\* SpecIngest: files are dropped on the Library page, the same file any
\* number of times, also while earlier ingestions are going on.
NextIngest ==
    \/ \E id \in Books : Ingest(id, MaxLibOps + 1)
    \/ PutFileDone
    \/ PutBookDone
    \/ PutCoverDone

SpecIngest == InitLibrary /\ [][NextIngest]_vars

\* SpecShelf: ingestions and deletions on the Library page, which the user
\* leaves and comes back to.
NextShelf ==
    \/ \E id \in {"e1", "p1"} : Ingest(id, MaxLibOps)
    \/ \E id \in {"e1", "p1"} : DeleteBook(id, MaxLibOps)
    \/ LeaveLibrary(MaxInst)
    \/ LibraryMount
    \/ PutBookDone
    \/ LibraryDb

SpecShelf == InitLibrary /\ [][NextShelf]_vars

\* SpecOpen: fixed-layout documents are opened in the paginated viewer and
\* closed again; the user touches no navigation control.
NextOpen ==
    \/ \E id \in {"p1", "p2"} : Mount(id, MaxInst)
    \/ SyncRef
    \/ Unmount
    \/ MetaStep
    \/ LoadDone
    \/ PutBookDone

SpecOpen == InitResume /\ [][NextOpen]_vars

\* SpecPdfView: one session in the paginated viewer with the 'previous' and
\* 'next' controls and the page slider, used once the document is loaded,
\* under every schedule of the commits and the store.
NextPdfView ==
    \/ \E id \in {"p1", "p2"} : Mount(id, 1)
    \/ SyncRef
    \/ Unmount
    \/ PdfLoaded /\ PdfPrev(MaxEvents + 1)
    \/ PdfLoaded /\ PdfNext(MaxEvents + 1)
    \/ \E v \in 1..PageCount("p2") : PdfSlider(v, MaxEvents + 1)
    \/ DocumentLoaded
    \/ ReaderDb

SpecPdfView == InitResume /\ [][NextPdfView]_vars

\* SpecClean: cleanMetaString is applied to a string and again to its own
\* result.
NextClean == CleanMeta(MaxEvents)

SpecClean == InitClean /\ [][NextClean]_vars

\* SpecAuthor: normalizeAuthor is applied to a string and again to its own
\* result.
NextAuthor == NormalizeAuthorCall(MaxEvents)

SpecAuthor == InitAuthor /\ [][NextAuthor]_vars

\* The objects after e1, p1 and t1 were opened in this order, each by the
\* slow path: the viewers got the buffers 1, 3 and 5, the Map holds their
\* clones 2, 4 and 6, and the viewers consumed none or all of theirs.
OpenedHeaps ==
    { [cache |-> [id \in Ids |-> CASE id = "e1" -> 2 [] id = "p1" -> 4
                                   [] id = "t1" -> 6 [] OTHER -> 0],
       handed |-> {1, 3, 5}, detached |-> d, next |-> 7] : d \in {{}, {1, 3, 5}} }

\* The library of InitResume when the page was just loaded (the cache is
\* empty) or after e1, p1 and t1 were opened in this order.
InitCache ==
    /\ books = [id \in Ids |-> IF id = "p2" THEN ResumeBook ELSE NewBook(id, 0)]
    /\ files = Ids
    /\ goal = DefaultGoal
    /\ fileCache \in {<<>>, BookOrder}
    /\ dbq = <<>>
    /\ rd = [i \in Insts |-> NoReader]
    /\ cur = 0
    /\ ninst = 0
    /\ nev = 0
    /\ nlib = 0
    /\ lib = LoadedLibrary(0, <<"e1", "p1", "p2", "t1">>)
    /\ now = 2 * 24 + 12
    /\ completions = [id \in Books |-> 0]
    /\ scen = 0
    /\ obs = FreshObs
    /\ reads = FreshReads
    /\ text = NoText
    /\ epub = NoEpub
    /\ scroll = NoScroll
    /\ heap \in IF fileCache = <<>> THEN {EmptyHeap} ELSE OpenedHeaps

\* SpecCache: the four books are opened and closed in any order, a book
\* also while the load of the book opened before it is still running.
NextCache ==
    \/ \E id \in Ids : Mount(id, MaxInst)
    \/ SyncRef
    \/ Unmount
    \/ EngineConsumes
    \/ LoadDone
    \/ PutBookDone

SpecCache == InitCache /\ [][NextCache]_vars

\* SpecPdfEarly: one session in the paginated viewer in which the user
\* may press the edge zones while the document is still loading.
NextPdfEarly ==
    \/ \E id \in {"p1", "p2"} : Mount(id, 1)
    \/ SyncRef
    \/ Unmount
    \/ PdfPrev(MaxEvents)
    \/ PdfNext(MaxEvents)
    \/ \E v \in 1..PageCount("p2") : PdfSlider(v, MaxEvents)
    \/ DocumentLoaded
    \/ TimeStep
    \/ ReaderDb

SpecPdfEarly == InitResume /\ [][NextPdfEarly]_vars

\* SpecEpub: the life of the reflowable viewer's hook: mounts and unmounts,
\* the asynchronous steps of a book's opening in every order, key presses,
\* and the re-runs of the effect that the controller's book updates cause.
NextEpub ==
    \/ EpubMount
    \/ EpubReady
    \/ EpubDisplayed
    \/ EpubGenerated
    \/ \E dir \in {-1, 1} : EpubKey(dir)
    \/ EpubRerun
    \/ EpubUnmount

SpecEpub == InitEpub /\ [][NextEpub]_vars

\* SpecScroll: a PDF opened in 'scrolled' mode at its first or its tenth
\* page, the scroll restoration, and the user scrolling page by page.
NextScroll ==
    \/ \E numPages \in ScrollDocs, page \in {1, 10} : ScrollOpen(numPages, page)
    \/ ScrollRestore
    \/ \E d \in {-1, 1} : ScrollBy(d)
    \/ ScrollClose

SpecScroll == InitScroll /\ [][NextScroll]_vars

----------------------------------------------------------------------------
(* Claims *)

\* C1: when a book that is being read receives the progress events 96, 97,
\* 94, 98 in this order, then, once every goal read and write the events
\* started has been executed, the book's in-memory status is 'finished' and
\* the persisted totalBooksCompleted is exactly one higher than before the
\* first event (it is 0 before the first event of the only session of
\* SpecScenario).
C1_ScenarioCountsOneCompletion ==
    (cur # 0 /\ scen = Len(Scenario) /\ dbq = <<>>)
        => /\ rd[cur].book.status = "finished"
           /\ goal.totalBooksCompleted = DefaultGoal.totalBooksCompleted + 1

\* C2: over any sequence of open, progress events, close and re-open, the
\* completion branch (status set to 'finished', completion counter
\* incremented) runs at most once for each book id.
C2_CompletionAtMostOnce ==
    \A id \in Books : completions[id] <= 1

\* C3: the persisted status of a Book never moves backward in the order
\* want-to-read < reading < finished, whatever step is taken.
C3_StatusNeverMovesBack ==
    [][\A id \in Books :
          (books[id] # Null /\ books'[id] # Null)
              => StatusRank(books'[id].status) >= StatusRank(books[id].status)]_vars

\* C4: within one open session, once the in-memory status of the book is
\* 'finished', a later progress event reporting a lower percent leaves it
\* 'finished'.
C4_FinishedStaysFinished ==
    [][(/\ nev' = nev + 1
        /\ cur # 0
        /\ rd[cur].book.status = "finished"
        /\ obs'.evPct < rd[cur].book.progress)
            => rd'[cur].book.status = "finished"]_vars

\* C5: for every format, a progress event whose computed percent is at
\* least 95, received for a book whose status is 'reading', sets the status
\* to 'finished'.
C5_HighPercentFinishes ==
    [][(/\ nev' = nev + 1
        /\ cur # 0
        /\ rd[cur].book.status = "reading"
        /\ obs'.evPct >= FinishPercent)
            => rd'[cur].book.status = "finished"]_vars

C7_UnmountFlushesLatest ==
    [][\A i \in Insts :
          (/\ rd[i].alive /\ ~rd'[i].alive
           /\ rd[i].savePending /\ rd[i].timerArmed)
              => /\ ~rd'[i].timerArmed
                 /\ dbq' # <<>>
                 /\ dbq'[Len(dbq')] = PutBookReq(rd[i].book, "flush", i, "no")]_vars

\* C8: a metadata result for book A that resolves after the open book has
\* changed to another book B changes no in-memory book and no persisted
\* Book record: the store is the same before and after every request that
\* such a result has placed.
C8_StaleMetaDiscarded ==
    [][(/\ Placed("putBook")
        /\ Head(dbq).src = "meta"
        /\ Head(dbq).stale \notin {"no", "none", Head(dbq).id}
        /\ dbq' = Tail(dbq))
            => books' = books]_vars

\* C9: when the user has left the reader, or switched to another book,
\* while loadBook awaited the store, the rest of the load issues no
\* saveBook: no saveBook placed by the load of an unmounted Reader is ever
\* in the queue.
C9_AbandonedLoadWritesNothing ==
    \A k \in 1..Len(dbq) :
        ~(dbq[k].op = "putBook" /\ dbq[k].src = "load" /\ dbq[k].stale # "no")

\* The step executes the loadBook continuation at the head of the queue.
LoadExecuted ==
    /\ Placed("load")
    /\ dbq' = <<>> \/ Head(dbq') # Head(dbq)

\* C10: whatever the file cache holds, when loadBook finds the Book record
\* or the File record absent, it redirects to the library, sets neither the
\* in-memory book nor the file data, and places no write.
C10_MissingRecordRedirects ==
    [][(/\ LoadExecuted
        /\ rd[Head(dbq).inst].alive
        /\ books[Head(dbq).id] = Null \/ Head(dbq).id \notin files)
            => /\ cur' = 0
               /\ rd'[Head(dbq).inst].book = Null
               /\ rd'[Head(dbq).inst].fileData = "null"
               /\ \A k \in 1..Len(dbq') : dbq'[k].src # "load"]_vars

\* The greatest day of a non-empty set of days.
LastDay(days) == CHOOSE m \in days : \A d \in days : d <= m

\* The length of the run of consecutive days that ends at the last day.
TrailingRun(days) ==
    CHOOSE k \in 1..Cardinality(days) :
        /\ \A j \in 0..(k - 1) : (LastDay(days) - j) \in days
        /\ (LastDay(days) - k) \notin days

\* C11: starting from the default goal, after updateReadingStats has run
\* once per read date of a non-decreasing sequence, each call after the
\* one before it has finished, currentStreak is the length of the trailing
\* run of consecutive days that ends at the last read date.
C11_StreakIsTrailingRun ==
    (dbq = <<>> /\ reads.days # {})
        => goal.currentStreak = TrailingRun(reads.days)

StreakFields(g) == <<g.currentStreak, g.longestStreak, g.lastReadDate>>

\* C12: after any number of updateReadingStats calls on one day, made one
\* after another or interleaved, currentStreak, longestStreak and
\* lastReadDate are what a single call on that day, applied to the goal the
\* day began with, produces.
C12_SameDayIdempotent ==
    (dbq = <<>> /\ reads.days # {})
        => \E h \in (24 * UtcDay(now))..(24 * UtcDay(now) + 23) :
              StreakFields(goal) = StreakFields(StatsAt(reads.base, h))

\* C12 witness: several calls on the day have run interleaved (a minute of
\* the total was lost) on a goal last updated the day before.
C12_InterleavedCallsDone ==
    /\ dbq = <<>>
    /\ nev >= 2
    /\ reads.base.lastReadDate = UtcDay(now) - 1
    /\ goal.totalMinutesRead < reads.base.totalMinutesRead + nev
    /\ goal.lastReadDate = UtcDay(now)

\* How often the id occurs in the list.
Occurrences(list, id) == Cardinality({ k \in 1..Len(list) : list[k] = id })

\* C13: the book id is the content hash, so ingesting the same bytes again
\* ingests the same id; no id is ever listed twice, and once the ingestions
\* have finished the store and the library list each hold exactly one Book
\* for every content hash that has a File record, and none for the others.
C13_OneBookPerHash ==
    /\ \A id \in Books : Occurrences(lib.list, id) <= 1
    /\ dbq = <<>> =>
          \A id \in Books :
              IF id \in files
              THEN books[id] # Null /\ books[id].id = id
                   /\ Occurrences(lib.list, id) = 1
              ELSE books[id] = Null /\ Occurrences(lib.list, id) = 0

\* C13 witness: three ingestions have finished and only one Book carries an
\* ingestion instant of this run: the same bytes were ingested three times.
C13_SameBytesIngestedAgain ==
    /\ dbq = <<>>
    /\ nlib = MaxLibOps + 1
    /\ Cardinality({ id \in Books : books[id] # Null /\ books[id].addedAt > 0 }) = 1
    /\ \E id \in Books : books[id] = Null

\* C14: the persisted addedAt of a Book record never changes once set,
\* whatever step is taken.
C14_AddedAtNeverChanges ==
    [][\A id \in Books :
          (books[id] # Null /\ books'[id] # Null)
              => books'[id].addedAt = books[id].addedAt]_vars

\* C15: whenever loadBooks sets the library list from the store, every
\* listed Book has a File record with the same id.
C15_ListedBooksHaveFiles ==
    [][(Placed("getAll") /\ lib.loading /\ ~lib'.loading)
          => \A id \in Range(lib'.list) : id \in files]_vars

\* C16: when handleMetaExtracted runs for instance i with the book prev in
\* its bookRef, a title differing from prev's is only produced when prev's
\* title is empty or the filename placeholder, an author differing from
\* prev's only when prev's author is empty; when nothing changes the book
\* state and the request queue are untouched; when something changes the
\* changed Book is handed to saveBook in the same step and the debounce
\* timer is not involved.
C16_MetaOverwriteRules ==
    [][\A i \in Insts :
          (rd[i].meta = "pending" /\ rd'[i].meta = "done") =>
              LET prev == rd[i].bookRef
                  last == dbq'[Len(dbq')]
              IN /\ rd'[i].timerArmed = rd[i].timerArmed
                 /\ rd'[i].timerLeft = rd[i].timerLeft
                 /\ rd'[i].savePending = rd[i].savePending
                 /\ IF dbq' = dbq
                    THEN rd'[i].book = rd[i].book
                    ELSE /\ dbq' = Append(dbq, last)
                         /\ last.op = "putBook"
                         /\ last.id = prev.id
                         /\ last.book # prev
                         /\ last.book = [prev EXCEPT !.title = last.book.title,
                                                     !.author = last.book.author]
                         /\ last.book.title # prev.title
                               => prev.title \in {"", FilenameTitle(prev.id)}
                         /\ last.book.author # prev.author => prev.author = ""
                         /\ rd[i].alive => rd'[i].book = last.book]_vars

\* C16 witness: a metadata result has changed the title of the open book
\* and its write is in the queue while the debounce timer is not running.
C16_MetaWritePlaced ==
    /\ cur # 0
    /\ rd[cur].meta = "done"
    /\ ~rd[cur].timerArmed
    /\ rd[cur].book.title = "Meta"
    /\ \E k \in 1..Len(dbq) :
          dbq[k].src = "meta" /\ dbq[k].stale = "no" /\ dbq[k].book = rd[cur].book

\* C17: once the 200-page document p2, whose stored resume position is
\* page 150, is open in the viewer, its document is loaded and nothing is
\* pending any more, a progress event (page 150 of 200, 75 percent) has been
\* delivered to the controller although the user did not navigate.
ResumeShown ==
    /\ PdfLoaded
    /\ rd[cur].id = "p2"
    /\ rd[cur].currentPage = 150
    /\ rd[cur].numPages = 200
    /\ rd[cur].meta = "done"
    /\ rd[cur].bookRef = rd[cur].book
    /\ dbq = <<>>

C17_ResumeReported ==
    ResumeShown => nev >= 1

\* C18: while a loaded PDF is shown, the viewer's current page is within
\* 1..numPages after every 'previous', 'next' and slider command; and a
\* command that asks for the page already shown at either end ('previous'
\* on page 1, 'next' on the last page) leaves the current page and the
\* Book's position and percent, in memory and in the store, unchanged.
BoundaryCommand ==
    /\ PdfLoaded
    /\ nev' = nev + 1
    /\ rd[cur].currentPage \in {1, rd[cur].numPages}
    /\ obs'.evPos = rd[cur].currentPage

C18_PageStaysInRange ==
    /\ [](PdfLoaded => rd[cur].currentPage \in 1..rd[cur].numPages)
    /\ [][BoundaryCommand =>
             /\ rd'[cur].currentPage = rd[cur].currentPage
             /\ rd'[cur].book.pos = rd[cur].book.pos
             /\ rd'[cur].book.progress = rd[cur].book.progress
             /\ books' = books]_vars

\* C19: cleanMetaString is idempotent: applied to its own result, called
\* with the default fallback, it returns that result unchanged.
C19_CleanIdempotent ==
    text.calls >= 2 => text.val = text.prev

\* C20: normalizeAuthor is idempotent: applied to its own result, it
\* returns that result unchanged.
C20_AuthorIdempotent ==
    text.calls >= 2 => text.val = text.prev

\* C21: the file cache never holds more than CACHE_SIZE_LIMIT entries, and
\* an insertion into the full cache drops the entry that was inserted first
\* and keeps the others in their order behind the new one.
C21_CacheBounded ==
    /\ [](Len(fileCache) <= CACHE_SIZE_LIMIT)
    /\ [][(Len(fileCache) = CACHE_SIZE_LIMIT /\ fileCache' # fileCache)
            => /\ Len(fileCache') = CACHE_SIZE_LIMIT
               /\ SubSeq(fileCache', 1, CACHE_SIZE_LIMIT - 1) = Tail(fileCache)
               /\ fileCache'[CACHE_SIZE_LIMIT] \notin Range(fileCache)]_vars

\* A fourth book was inserted into the cache that held e1, p1 and t1.
C21_OldestEvicted ==
    fileCache = <<"p1", "t1", "p2">>

\* C22: no buffer handed to a viewer is a value of the file cache, a buffer
\* handed to a viewer was not handed to a viewer before, and it is not
\* detached when it is handed over, whatever the engines of earlier opens
\* did to their buffers.
CachedBuffers == { heap.cache[id] : id \in Ids } \ {0}

C22_BuffersNeverShared ==
    /\ [](heap.handed \cap CachedBuffers = {})
    /\ [](CachedBuffers \cap heap.detached = {})
    /\ [][\A b \in heap'.handed \ heap.handed :
             /\ b \notin heap.detached
             /\ b \notin CachedBuffers
             /\ rd'[cur].buffer = b]_vars

\* A book is opened from the cache after the engine of an earlier open of
\* the same book has consumed its buffer.
C22_ReopenedAfterConsume ==
    /\ cur # 0
    /\ rd[cur].fileData = "cacheClone"
    /\ rd[cur].buffer \notin heap.detached
    /\ heap.detached # {}
    /\ heap.cache[rd[cur].id] # 0

\* C23: every book id that is a key of the file cache has a File record in
\* the store.
C23_CachedBooksHaveFiles ==
    \A id \in Range(fileCache) : id \in files

\* C24: while the PDF viewer is on screen and its document is not loaded
\* (numPages is 0), no progress event is delivered to the controller, and
\* neither the viewer's current page nor the Book's position changes.
C24_NoCommandBeforeLoad ==
    [][(PdfViewer /\ rd[cur].numPages = 0)
        => /\ nev' = nev
           /\ cur' = cur => /\ rd'[cur].currentPage = rd[cur].currentPage
                             /\ rd'[cur].book.pos = rd[cur].book.pos]_vars

\* C25: the progress of every Book, in the store and in the state of every
\* Reader, is an integer from 0 to 100.
C25_ProgressIsPercent ==
    /\ \A id \in Ids : books[id] # Null => books[id].progress \in 0..100
    /\ \A i \in Insts : rd[i].book # Null => rd[i].book.progress \in 0..100

\* C26: when location generation completes while a location is on screen
\* (the first relocation event has been emitted), the hook's progress state
\* and the last report to the controller then give the ordinal of that
\* location, the total and the percent.
C26_ReportedAfterGeneration ==
    [][(epub.phase = "open" /\ epub.at > 0
            /\ epub.locations = 0 /\ epub'.locations > 0)
        => /\ epub'.progress = [page |-> epub.at, total |-> epub'.locations]
           /\ epub'.report = Report(epub.at, epub'.locations)]_vars

\* The pages that may be rendered: the resume target's window and the
\* windows of the pages that intersect the viewport now.
RenderWindow ==
    Around(scroll.target, BUFFER_PAGES, scroll.numPages)
        \cup UNION { Around(p, BUFFER_PAGES, scroll.numPages) :
                         p \in Intersecting(scroll.top, scroll.numPages) }

\* The most pages two windows can hold, whatever numPages is.
RenderLimit == (2 * BUFFER_PAGES + 1) + (2 * (MarginPages + BUFFER_PAGES) + 1)

\* C27: in 'scrolled' mode the rendered pages are pages of the document,
\* they lie in the windows of the target and of the pages now visible (a
\* page scrolled out of them is a placeholder), and they are at most
\* RenderLimit.
C27_RenderedPagesBounded ==
    scroll.numPages > 0 =>
        /\ pagesToRender(scroll) \subseteq 1..scroll.numPages
        /\ pagesToRender(scroll) \subseteq RenderWindow
        /\ Cardinality(pagesToRender(scroll)) <= RenderLimit

\* C28: at most one keydown listener is registered while the viewer is
\* mounted and none when it is not, and a key press makes one call of
\* next() or prev().
C28_OneKeyListener ==
    /\ epub.listeners <= (IF epub.mounted THEN 1 ELSE 0)
    /\ epub.calls <= 1

\* No read or write of the reading goal is pending.
GoalSettled == \A k \in 1..Len(dbq) : dbq[k].op \notin {"getGoal", "putGoal"}

\* The completion branches run so far.
CompletionsRun == completions["e1"] + completions["p1"] + completions["t1"]

\* C29: once the goal requests started by the progress events have all
\* executed, the stored goal holds every increment of totalBooksCompleted
\* made by a completion branch together with the streak fields written by
\* updateReadingStats for the same event; and longestStreak never decreases.
C29_GoalKeepsBothUpdates ==
    /\ [](GoalSettled =>
            /\ goal.totalBooksCompleted = CompletionsRun
            /\ CompletionsRun > 0 =>
                   /\ goal.lastReadDate = UtcDay(now)
                   /\ goal.currentStreak >= 1
                   /\ goal.longestStreak >= goal.currentStreak)
    /\ [][goal'.longestStreak >= goal.longestStreak]_vars

\* A step during which the mounted Reader shows its Book.
BookShown ==
    /\ cur # 0
    /\ cur' = cur
    /\ rd[cur].book # Null
    /\ rd'[cur].book # Null

\* C30: whatever bookRef holds when a handler runs, a progress event keeps
\* the title and author the in-memory Book has, a metadata update keeps its
\* position, percent and status, and the completion branch runs only for a
\* Book that is not finished.
C30_NoUpdateLost ==
    [][BookShown =>
        /\ nev' # nev =>
               /\ rd'[cur].book.title = rd[cur].book.title
               /\ rd'[cur].book.author = rd[cur].book.author
        /\ nev' = nev =>
               /\ rd'[cur].book.pos = rd[cur].book.pos
               /\ rd'[cur].book.progress = rd[cur].book.progress
               /\ rd'[cur].book.status = rd[cur].book.status
        /\ completions'[rd[cur].id] # completions[rd[cur].id] =>
               rd[cur].book.status # "finished"]_vars

============================================================================
